---- MODULE Spec2Model ----
(***************************************************************************)
(* Usage quota and billing-cycle engine of cantonese-scribe-pro:           *)
(* UsageService (api/app/services/usage_service.py), MonthlyResetService   *)
(* (api/app/services/monthly_reset_service.py), the request schemas        *)
(* (api/app/schemas/usage.py) and the endpoints that call the service      *)
(* (api/app/api/v1/endpoints/usage.py, transcription.py).                  *)
(*                                                                         *)
(* The relational store is modelled by its tables: users (read only),      *)
(* subscriptions, transcriptions (counted by status) and the ledger        *)
(* usage_tracking.  Every request handler in flight is a process whose     *)
(* position and locals are kept in call[p]; a handler advances by one      *)
(* store round trip per step, so that handlers interleave where the code   *)
(* awaits.                                                                 *)
(*                                                                         *)
(* Beside the engine the module covers the usage tracking middleware and   *)
(* its ConcurrentProcessingLimiter (api/app/middleware/usage_tracking.py), *)
(* the in-memory TranscriptionService (api/services/                       *)
(* transcription_service.py) and the RetryService with its circuit breaker *)
(* (api/app/services/retry_service.py).                                    *)
(***************************************************************************)
EXTENDS Integers, Sequences, FiniteSets, TLC

VARIABLES
    today,            \* the clock: date.today()
    subscription,     \* subscriptions: user -> plan_name of the active row, "none" without one
    transcriptions,   \* transcriptions: user -> number of rows by status
    usage_tracking,   \* the ledger, one record per row, in insertion order
    next_job,         \* number of job ids handed out by create_job
    ticks,            \* times the clock has advanced
    call,             \* request handlers: position, locals and outcome
    subscription_rows,  \* subscriptions: user -> rows that are active or trialing and not ended
    audit_logs,       \* audit_logs, one record per row, in insertion order
    reset_in_progress,  \* MonthlyResetService.reset_in_progress
    resets,           \* the MonthlyResetResponse values perform_monthly_reset has returned
    run,              \* the bulk reset run: position, locals and counters
    active_jobs,      \* ConcurrentProcessingLimiter.active_jobs: user -> set of job ids
    track,            \* the limiter's caller: its last start_job and the finish_job calls after it
    callers,          \* callers that ask the limiter before they start a job: position and locals
    enable_enforcement,  \* UsageTrackingMiddleware.enable_enforcement, as the application constructs it
    processing_jobs,  \* UsageTrackingMiddleware.processing_jobs: user -> set of processing ids
    now,              \* int(time.time()): the clock's second
    requests,         \* the requests dispatch is serving: position, locals and outcome
    bulk,             \* manual_reset_all_users called beside the scheduler: position, locals and counters
    service_jobs,     \* TranscriptionService.jobs: job id -> the job's status, its process_job and the last answer of cancel_job
    service_active_jobs, \* TranscriptionService.active_jobs: the job ids that have a task
    circuit,          \* RetryService._circuit_breakers[name]: the state of one named circuit breaker
    retry,            \* the callers of with_retry: position, locals and outcome
    utcnow            \* datetime.utcnow(), in seconds

\* the state of the monthly reset service
reset_vars == <<subscription_rows, audit_logs, reset_in_progress, resets, run>>

\* the state of the concurrent processing limiter and of its callers
limiter_vars == <<active_jobs, track, callers>>

\* the state of the usage tracking middleware and of the requests it serves
middleware_vars == <<enable_enforcement, processing_jobs, now, requests>>

\* the state of the manual bulk trigger
bulk_vars == <<bulk>>

\* the state of the transcription service
transcription_vars == <<service_jobs, service_active_jobs>>

\* the state of the retry service, its callers and its clock
retry_vars == <<circuit, retry, utcnow>>

vars == <<today, subscription, transcriptions, usage_tracking, next_job, ticks, call,
          subscription_rows, audit_logs, reset_in_progress, resets, run, active_jobs, track, callers,
          enable_enforcement, processing_jobs, now, requests,
          bulk,
          service_jobs, service_active_jobs,
          circuit, retry, utcnow>>

-----------------------------------------------------------------------------
(* Bounds of the model *)

\* rows the ledger may hold
MaxLedger == 2
\* days the clock may advance
MaxTicks == 1
\* rows of the transcriptions table per user in the admission specification
MaxJobs == 2
\* bulk reset runs
MaxRuns == 2
\* finish_job calls that follow one start_job
MaxFinishes == 2
\* times the clock may advance by months
MaxJumps == 2
\* manual resets of one account
MaxResets == 1
\* seconds the clock of the middleware may advance
MaxSeconds == 1
\* manual bulk triggers beside the scheduler
MaxBulk == 1
\* with_retry calls of one caller
MaxCalls == 2
\* seconds the clock of the retry service may reach
MaxClock == 61

-----------------------------------------------------------------------------
(* Calendar: datetime.date *)

Date(y, m, d) == [year |-> y, month |-> m, day |-> d]

\* what the model carries where date(...) raised ValueError
InvalidDate == Date(0, 0, 0)

IsLeap(y) == (y % 4 = 0 /\ y % 100 # 0) \/ y % 400 = 0

DaysInMonth(y, m) ==
    IF m \in {4, 6, 9, 11} THEN 30
    ELSE IF m = 2 THEN (IF IsLeap(y) THEN 29 ELSE 28)
    ELSE 31

\* date(y, m, d): raises ValueError ("day is out of range for month")
date(y, m, d) ==
    IF m \in 1..12 /\ d >= 1 /\ d <= DaysInMonth(y, m) THEN Date(y, m, d) ELSE InvalidDate

\* dt + timedelta(days=1)
NextDay(dt) ==
    IF dt.day < DaysInMonth(dt.year, dt.month) THEN Date(dt.year, dt.month, dt.day + 1)
    ELSE IF dt.month < 12 THEN Date(dt.year, dt.month + 1, 1)
    ELSE Date(dt.year + 1, 1, 1)

\* dt - timedelta(days=1)
PrevDay(dt) ==
    IF dt.day > 1 THEN Date(dt.year, dt.month, dt.day - 1)
    ELSE IF dt.month > 1 THEN Date(dt.year, dt.month - 1, DaysInMonth(dt.year, dt.month - 1))
    ELSE Date(dt.year - 1, 12, 31)

\* dt.toordinal(): the days from 0001-01-01 to dt, counted from 1
DaysBeforeYear(y) == (y - 1) * 365 + (y - 1) \div 4 - (y - 1) \div 100 + (y - 1) \div 400

DaysBeforeMonth(y, m) ==
    <<0, 31, 59, 90, 120, 151, 181, 212, 243, 273, 304, 334>>[m]
        + (IF m > 2 /\ IsLeap(y) THEN 1 ELSE 0)

toordinal(dt) == DaysBeforeYear(dt.year) + DaysBeforeMonth(dt.year, dt.month) + dt.day

\* the year and month n months before (n < 0: after) those of dt
months_before(dt, n) ==
    [year |-> (dt.year * 12 + dt.month - 1 - n) \div 12,
     month |-> ((dt.year * 12 + dt.month - 1 - n) % 12) + 1]

\* a month label: the text 'YYYY-MM' behind a number of 'archived_' prefixes
MonthLabel(prefixes, y, m) == [prefixes |-> prefixes, year |-> y, month |-> m]

\* today.strftime("%Y-%m")
strftime_Ym(dt) == MonthLabel(0, dt.year, dt.month)

\* the order of the store on labels, that of text: a digit sorts before the letter a,
\* so a label with more prefixes is the greater one, and two labels with the same
\* prefixes compare as their years and months
LabelKey(label) == label.prefixes * 1000000 + label.year * 100 + label.month

-----------------------------------------------------------------------------
(* Plan registry *)

MB == 1024 * 1024

\* cost_per_credit is kept in cents
PLAN_CONFIGS ==
    [free       |-> [plan_name |-> "free", credits_per_month |-> 30, max_file_size_mb |-> 25,
                     max_concurrent_jobs |-> 1, cost_per_credit |-> 0, allows_overage |-> FALSE],
     starter    |-> [plan_name |-> "starter", credits_per_month |-> 150, max_file_size_mb |-> 100,
                     max_concurrent_jobs |-> 2, cost_per_credit |-> 10, allows_overage |-> TRUE],
     pro        |-> [plan_name |-> "pro", credits_per_month |-> 500, max_file_size_mb |-> 500,
                     max_concurrent_jobs |-> 5, cost_per_credit |-> 8, allows_overage |-> TRUE],
     enterprise |-> [plan_name |-> "enterprise", credits_per_month |-> 2000, max_file_size_mb |-> 1000,
                     max_concurrent_jobs |-> 10, cost_per_credit |-> 5, allows_overage |-> TRUE]]

\* self.PLAN_CONFIGS.get(user_plan, self.PLAN_CONFIGS["free"])
PlanConfig(user_plan) ==
    IF user_plan \in DOMAIN PLAN_CONFIGS THEN PLAN_CONFIGS[user_plan] ELSE PLAN_CONFIGS["free"]

-----------------------------------------------------------------------------
(* The account directory and the usage kinds *)

Users == {"u1", "u2"}

\* users.created_at and users.is_active: u1 signed up on a 15th, u2 on a 31st
users ==
    [u1 |-> [created_at |-> Date(2024, 3, 15), is_active |-> TRUE],
     u2 |-> [created_at |-> Date(2024, 3, 31), is_active |-> TRUE]]

TRANSCRIPTION == "transcription"
EXPORT == "export"
API_CALL == "api_call"

UsageTypes == {TRANSCRIPTION, EXPORT, API_CALL}

\* transcription_id: None, an id chosen by the caller, or the id of job n
NoId == <<"none", 0>>
CallerId(n) == <<"caller", n>>
JobId(n) == <<"job", n>>

-----------------------------------------------------------------------------
(* Private helpers of UsageService *)

\* _get_user_plan: the newest active or trialing subscription, else "free"
get_user_plan(user_id) ==
    IF subscription[user_id] = "none" THEN "free" ELSE subscription[user_id]

\* _get_user_billing_period, lines 665-671: the end date, from the start date
period_from(start_date, creation_day) ==
    IF start_date = InvalidDate
    THEN [ok |-> FALSE, start |-> InvalidDate, end |-> InvalidDate]
    ELSE IF date(IF start_date.month = 12 THEN start_date.year + 1 ELSE start_date.year,
                 IF start_date.month = 12 THEN 1 ELSE start_date.month + 1,
                 creation_day) = InvalidDate
    THEN [ok |-> FALSE, start |-> InvalidDate, end |-> InvalidDate]
    ELSE [ok |-> TRUE, start |-> start_date,
          end |-> PrevDay(date(IF start_date.month = 12 THEN start_date.year + 1
                                                       ELSE start_date.year,
                               IF start_date.month = 12 THEN 1 ELSE start_date.month + 1,
                               creation_day))]

\* billing_period_on with > in place of >= : on the anniversary the period is the old one
billing_period_on_gt(creation_day, day) ==
    period_from(IF day.day > creation_day
                THEN date(day.year, day.month, creation_day)
                ELSE IF day.month = 1
                     THEN date(day.year - 1, 12, creation_day)
                     ELSE date(day.year, day.month - 1, creation_day),
                creation_day)

\* _get_user_billing_period, lines 653-671, for a creation day and a value of
\* date.today(); ok is FALSE where a date(...) raised ValueError
billing_period_on(creation_day, day) ==
    period_from(IF day.day >= creation_day
                THEN date(day.year, day.month, creation_day)
                ELSE IF day.month = 1
                     THEN date(day.year - 1, 12, creation_day)
                     ELSE date(day.year, day.month - 1, creation_day),
                creation_day)

\* _get_user_billing_period
get_user_billing_period(user_id) ==
    billing_period_on(users[user_id].created_at.day, today)

\* _check_existing_usage: SELECT id FROM usage_tracking WHERE transcription_id = :id
check_existing_usage(transcription_id) ==
    \E i \in 1..Len(usage_tracking) : usage_tracking[i].transcription_id = transcription_id

\* _get_concurrent_processing_count: COUNT(*) ... AND status = 'processing'
\* the count over the rows that are 'processing' or 'pending'
get_concurrent_processing_count_active(user_id) ==
    transcriptions[user_id].processing + transcriptions[user_id].pending

get_concurrent_processing_count(user_id) == transcriptions[user_id].processing


-----------------------------------------------------------------------------
(* get_current_usage: the aggregate of the current billing period *)

\* CEIL(duration_seconds::float / 60)
CEIL60(duration_seconds) == -((-duration_seconds) \div 60)

GREATEST(a, b) == IF a >= b THEN a ELSE b

\* the CASE of the aggregate: the credits one ledger row counts for
AggregateCredits(row) ==
    IF row.usage_type = "transcription"
    THEN GREATEST(1, CEIL60(row.duration_seconds))
    ELSE 1

\* InPeriod without the billing period: the aggregate of all the account's rows
InPeriod_any_period(row, user_id, billing_period) ==
    row.user_id = user_id

\* the WHERE clause of the aggregate
InPeriod(row, user_id, billing_period) ==
    /\ row.user_id = user_id
    /\ row.billing_period_start = billing_period.start
    /\ row.billing_period_end = billing_period.end

\* SUM(CASE ... END) over the selected rows
RECURSIVE SumCredits(_)
SumCredits(rows) ==
    IF rows = <<>> THEN 0 ELSE AggregateCredits(Head(rows)) + SumCredits(Tail(rows))

\* SUM(duration_seconds) over the selected rows
RECURSIVE SumDuration(_)
SumDuration(rows) ==
    IF rows = <<>> THEN 0 ELSE Head(rows).duration_seconds + SumDuration(Tail(rows))

\* where get_current_usage raised: the service answers 500
UsageError ==
    [ok |-> FALSE, credits_used |-> 0, credits_total |-> 0, billing_period_start |-> InvalidDate,
     reset_date |-> InvalidDate, is_near_limit |-> FALSE, is_at_limit |-> FALSE,
     concurrent_processing |-> 0, max_concurrent |-> 0, transcription_count |-> 0,
     total_duration_minutes |-> 0]

\* get_current_usage, lines 160-220, once the plan and the period are known
current_usage_response(user_id, plan_config, billing_period, rows) ==
    IF ~billing_period.ok THEN UsageError
    ELSE [ok |-> TRUE,
          credits_used |-> SumCredits(rows),
          credits_total |-> plan_config.credits_per_month,
          billing_period_start |-> billing_period.start,
          reset_date |-> NextDay(billing_period.end),
          \* credits_used >= credits_total * 0.8, exact for the four allowances
          is_near_limit |-> SumCredits(rows) * 10 >= plan_config.credits_per_month * 8,
          is_at_limit |-> SumCredits(rows) >= plan_config.credits_per_month,
          concurrent_processing |-> get_concurrent_processing_count(user_id),
          max_concurrent |-> plan_config.max_concurrent_jobs,
          transcription_count |-> Len(rows),
          total_duration_minutes |-> SumDuration(rows) \div 60]

\* the rows the aggregate query selects
period_rows(user_id, billing_period) ==
    SelectSeq(usage_tracking, LAMBDA row : InPeriod(row, user_id, billing_period))

get_current_usage(user_id) ==
    current_usage_response(user_id, PlanConfig(get_user_plan(user_id)),
                           get_user_billing_period(user_id),
                           period_rows(user_id, get_user_billing_period(user_id)))

-----------------------------------------------------------------------------
(* check_usage_limits: the quota evaluator *)

\* credits_required rounding down: max(1, estimated_duration_seconds // 60)
credits_required_floor(estimated_duration_seconds) ==
    IF estimated_duration_seconds \div 60 >= 1 THEN estimated_duration_seconds \div 60 ELSE 1

\* max(1, (estimated_duration_seconds + 59) // 60)
credits_required(estimated_duration_seconds) ==
    GREATEST(1, (estimated_duration_seconds + 59) \div 60)

\* current_usage.credits_total - current_usage.credits_used
credits_available(current_usage) == current_usage.credits_total - current_usage.credits_used

\* file_size_bytes / 1024 / 1024 > plan_config.max_file_size_mb
file_too_large(file_size_bytes, plan_config) ==
    file_size_bytes > plan_config.max_file_size_mb * MB

\* can_process_concurrent off by one: <= in place of <
can_process_concurrent_le(current_usage) ==
    current_usage.concurrent_processing <= current_usage.max_concurrent

\* current_usage.concurrent_processing < current_usage.max_concurrent
can_process_concurrent(current_usage) ==
    current_usage.concurrent_processing < current_usage.max_concurrent

None == <<>>

\* where check_usage_limits raised: the service answers 500
NoDecision ==
    [ok |-> FALSE, can_process |-> FALSE, credits_required |-> 0, credits_available |-> 0,
     credits_after |-> 0, estimated_cost |-> 0, blocking_reason |-> None, warnings |-> <<>>,
     can_process_concurrent |-> FALSE, current_concurrent_jobs |-> 0, max_concurrent_jobs |-> 0]

\* blocking_reason without lines 282-284: the concurrency cap leaves no reason
blocking_reason_credits_only(plan_config, current_usage, required) ==
    IF required > credits_available(current_usage) /\ ~plan_config.allows_overage
    THEN <<"Insufficient credits", required, credits_available(current_usage)>>
    ELSE None

\* the blocking_reason of lines 272-284
blocking_reason(plan_config, current_usage, required) ==
    IF ~can_process_concurrent(current_usage)
    THEN <<"Maximum concurrent jobs reached", current_usage.max_concurrent>>
    ELSE IF required > credits_available(current_usage) /\ ~plan_config.allows_overage
    THEN <<"Insufficient credits", required, credits_available(current_usage)>>
    ELSE None

\* credits_admit without the allows_overage test: a shortfall never blocks
credits_admit_overage(plan_config, current_usage, required) == TRUE

\* lines 275-281: the credits do not block the request
credits_admit(plan_config, current_usage, required) ==
    ~(required > credits_available(current_usage) /\ ~plan_config.allows_overage)

\* overage_warning naming the credits required in place of the shortfall
overage_warning_required(plan_config, current_usage, required) ==
    IF required > credits_available(current_usage) /\ plan_config.allows_overage
    THEN << <<"overage credits", required>> >>
    ELSE <<>>

\* the warnings of lines 271-288, in the order they are appended
overage_warning(plan_config, current_usage, required) ==
    IF required > credits_available(current_usage) /\ plan_config.allows_overage
    THEN << <<"overage credits", required - credits_available(current_usage)>> >>
    ELSE <<>>

near_limit_warning(current_usage) ==
    IF current_usage.is_near_limit /\ ~current_usage.is_at_limit
    THEN << <<"approaching monthly limit">> >>
    ELSE <<>>

\* check_usage_limits, lines 243-301, once the plan and the usage are known
usage_check_response(plan_config, current_usage, required, file_size_bytes) ==
    IF ~current_usage.ok THEN NoDecision
    ELSE IF file_too_large(file_size_bytes, plan_config)
    THEN [ok |-> TRUE, can_process |-> FALSE, credits_required |-> required,
          credits_available |-> credits_available(current_usage),
          credits_after |-> credits_available(current_usage) - required,
          estimated_cost |-> required * plan_config.cost_per_credit,
          blocking_reason |-> <<"File size exceeds limit", file_size_bytes,
                                plan_config.max_file_size_mb>>,
          warnings |-> <<>>, can_process_concurrent |-> FALSE,
          current_concurrent_jobs |-> current_usage.concurrent_processing,
          max_concurrent_jobs |-> current_usage.max_concurrent]
    ELSE [ok |-> TRUE,
          can_process |-> credits_admit(plan_config, current_usage, required)
                          /\ can_process_concurrent(current_usage),
          credits_required |-> required,
          credits_available |-> credits_available(current_usage),
          credits_after |-> credits_available(current_usage) - required,
          estimated_cost |-> required * plan_config.cost_per_credit,
          blocking_reason |-> blocking_reason(plan_config, current_usage, required),
          warnings |-> overage_warning(plan_config, current_usage, required)
                       \o near_limit_warning(current_usage),
          can_process_concurrent |-> can_process_concurrent(current_usage),
          current_concurrent_jobs |-> current_usage.concurrent_processing,
          max_concurrent_jobs |-> current_usage.max_concurrent]

check_usage_limits(user_id, estimated_duration_seconds, file_size_bytes) ==
    usage_check_response(PlanConfig(get_user_plan(user_id)), get_current_usage(user_id),
                         credits_required(estimated_duration_seconds), file_size_bytes)

\* UsageCheckRequest: the field constraints and validate_file_size
UsageCheckRequest(estimated_duration_seconds, file_size_bytes) ==
    IF estimated_duration_seconds < 1 THEN "estimated_duration_seconds: ge 1"
    ELSE IF file_size_bytes < 1 THEN "file_size_bytes: ge 1"
    ELSE IF file_size_bytes > 25 * MB THEN "file_size_bytes: exceeds maximum"
    ELSE "valid"


-----------------------------------------------------------------------------
(* Request handlers *)

Procs == {"p1", "p2"}

\* where get_usage_history raised: the service answers 500
NoHistory ==
    [ok |-> FALSE, history |-> <<>>, total_lifetime_credits |-> 0,
     total_lifetime_transcriptions |-> 0, total_lifetime_minutes |-> 0]

\* where get_user_limits raised: the service answers 500
NoLimits == [ok |-> FALSE, current_plan |-> None, can_upgrade |-> FALSE, upgrade_options |-> <<>>]

\* where get_concurrent_jobs_status raised: the service answers 500
NoJobsStatus ==
    [ok |-> FALSE, user_id |-> "none", current_jobs |-> 0, max_jobs |-> 0, available_slots |-> 0,
     queue_position |-> None, estimated_wait_time_seconds |-> None]

NoPeriod == [ok |-> FALSE, start |-> InvalidDate, end |-> InvalidDate]

\* a handler that is not running
Idle ==
    [op |-> "idle", pc |-> "idle", user_id |-> "none", usage_type |-> "none",
     duration_seconds |-> 0, file_size_bytes |-> 0, transcription_id |-> NoId,
     creation_day |-> 0, today |-> InvalidDate, billing_period |-> NoPeriod, credits |-> 0, existed |-> FALSE, inserted |-> FALSE,
     status |-> 0, detail |-> "none", decision |-> NoDecision, usage |-> UsageError,
     jobs |-> NoJobsStatus, limits |-> NoLimits, months |-> 0, history |-> NoHistory]

CanStart(p) == call[p].pc \in {"idle", "done"}

\* handlers that may still insert a ledger row
InFlight == {p \in Procs : call[p].pc \in {"st_create", "ru_check", "ru_insert"}}

LedgerHasRoom == Len(usage_tracking) + Cardinality(InFlight) < MaxLedger

\* the handler answers: status is the HTTP status, 200 for a returned value
Respond(c, status, detail) == [c EXCEPT !.pc = "done", !.status = status, !.detail = detail]

\* record_usage line 116: the credits record_usage computes, logs and hands on
record_credits(duration_seconds) ==
    IF duration_seconds > 0 THEN GREATEST(1, (duration_seconds + 59) \div 60) ELSE 1

\* UniqueViolation of a store without the constraint
UniqueViolation_none(transcription_id) == FALSE

\* the store's unique constraint on usage_tracking.transcription_id (NULLs are distinct)
UniqueViolation(transcription_id) ==
    transcription_id # NoId /\ check_existing_usage(transcription_id)

\* the row _insert_usage_record writes; file_size_bytes, cost and tokens_used are
\* stored as given and read by no query of the model
UsageRow(c) ==
    [user_id |-> c.user_id, transcription_id |-> c.transcription_id,
     usage_type |-> c.usage_type, usage_date |-> today,
     usage_month |-> strftime_Ym(today),
     duration_seconds |-> c.duration_seconds,
     billing_period_start |-> c.billing_period.start,
     billing_period_end |-> c.billing_period.end]

\* record_usage, lines 108-116: open the transaction, billing period, credits.
\* An exception of _get_user_billing_period is answered 500 by the last handler.
record_usage_begin(c) ==
    LET billing_period == get_user_billing_period(c.user_id)
        c1 == [c EXCEPT !.billing_period = billing_period,
                        !.credits = record_credits(c.duration_seconds),
                        !.existed = c.transcription_id # NoId
                                    /\ check_existing_usage(c.transcription_id)]
    IN  IF ~billing_period.ok
        THEN Respond(c1, 500, "Failed to record usage")
        ELSE [c1 EXCEPT !.pc = "ru_check"]

\* a caller of the service (POST /usage/record, the middleware, a test) calls record_usage
RecordUsageBegin(p, user_id, usage_type, duration_seconds, transcription_id) ==
    /\ CanStart(p)
    /\ LedgerHasRoom
    /\ call' = [call EXCEPT ![p] = record_usage_begin(
                   [Idle EXCEPT !.op = "record", !.user_id = user_id,
                                !.usage_type = usage_type,
                                !.duration_seconds = duration_seconds,
                                !.transcription_id = transcription_id])]
    /\ UNCHANGED <<today, subscription, transcriptions, usage_tracking, next_job, ticks, reset_vars, limiter_vars, middleware_vars, retry_vars, transcription_vars, bulk_vars>>

\* record_usage, lines 118-123: the duplicate check.  The HTTPException(409) is raised
\* inside the try block, is no UniqueViolationError, and is caught by
\* "except Exception" (lines 147-149), which raises HTTPException(500).
RecordCheckExisting(p) ==
    /\ call[p].pc = "ru_check"
    /\ call' = [call EXCEPT ![p] =
                   IF call[p].transcription_id # NoId
                      /\ check_existing_usage(call[p].transcription_id)
                   THEN Respond(call[p], 500, "Failed to record usage")
                   ELSE [call[p] EXCEPT !.pc = "ru_insert"]]
    /\ UNCHANGED <<today, subscription, transcriptions, usage_tracking, next_job, ticks, reset_vars, limiter_vars, middleware_vars, retry_vars, transcription_vars, bulk_vars>>

\* record_usage, lines 125-146: the insert and the commit of the transaction.  A
\* violation of the store's unique constraint is answered 409 (lines 145-146).
RecordInsert(p) ==
    /\ call[p].pc = "ru_insert"
    /\ IF UniqueViolation(call[p].transcription_id)
       THEN /\ call' = [call EXCEPT ![p] = Respond(call[p], 409, "Usage already recorded")]
            /\ UNCHANGED usage_tracking
       ELSE /\ usage_tracking' = Append(usage_tracking, UsageRow(call[p]))
            /\ call' = [call EXCEPT ![p] =
                           Respond([call[p] EXCEPT !.inserted = TRUE], 200, "recorded")]
    /\ UNCHANGED <<today, subscription, transcriptions, next_job, ticks, reset_vars, limiter_vars, middleware_vars, retry_vars, transcription_vars, bulk_vars>>

\* a caller of the service calls check_usage_limits (the tests, the middleware)
CheckUsageLimits(p, user_id, estimated_duration_seconds, file_size_bytes) ==
    /\ CanStart(p)
    /\ LET decision == check_usage_limits(user_id, estimated_duration_seconds, file_size_bytes)
           c == [Idle EXCEPT !.op = "check", !.user_id = user_id,
                             !.duration_seconds = estimated_duration_seconds,
                             !.file_size_bytes = file_size_bytes,
                             !.decision = decision]
       IN  call' = [call EXCEPT ![p] =
                       IF decision.ok THEN Respond(c, 200, "decision")
                       ELSE Respond(c, 500, "Failed to check usage limits")]
    /\ UNCHANGED <<today, subscription, transcriptions, usage_tracking, next_job, ticks, reset_vars, limiter_vars, middleware_vars, retry_vars, transcription_vars, bulk_vars>>

\* POST /usage/check: the body is validated as a UsageCheckRequest before the
\* endpoint runs (422), then the endpoint calls check_usage_limits
CheckEndpoint(p, user_id, estimated_duration_seconds, file_size_bytes) ==
    /\ CanStart(p)
    /\ LET valid == UsageCheckRequest(estimated_duration_seconds, file_size_bytes)
           decision == check_usage_limits(user_id, estimated_duration_seconds, file_size_bytes)
           c == [Idle EXCEPT !.op = "check_endpoint", !.user_id = user_id,
                             !.duration_seconds = estimated_duration_seconds,
                             !.file_size_bytes = file_size_bytes]
       IN  call' = [call EXCEPT ![p] =
                       IF valid # "valid" THEN Respond(c, 422, valid)
                       ELSE IF decision.ok
                       THEN Respond([c EXCEPT !.decision = decision], 200, "decision")
                       ELSE Respond(c, 500, "Failed to check usage limits")]
    /\ UNCHANGED <<today, subscription, transcriptions, usage_tracking, next_job, ticks, reset_vars, limiter_vars, middleware_vars, retry_vars, transcription_vars, bulk_vars>>

\* UsageRecordRequest: the field constraints (ge=0) and validate_usage_type
UsageRecordRequest(usage_type, duration_seconds, file_size_bytes) ==
    IF usage_type \notin UsageTypes THEN "usage_type must be one of the allowed types"
    ELSE IF duration_seconds < 0 THEN "duration_seconds: ge 0"
    ELSE IF file_size_bytes < 0 THEN "file_size_bytes: ge 0"
    ELSE "valid"

\* POST /usage/record: the body is validated as a UsageRecordRequest before the
\* endpoint runs (422), then the endpoint calls record_usage
RecordEndpoint(p, user_id, usage_type, duration_seconds, file_size_bytes) ==
    /\ CanStart(p)
    /\ LedgerHasRoom
    /\ LET valid == UsageRecordRequest(usage_type, duration_seconds, file_size_bytes)
           c == [Idle EXCEPT !.op = "record_endpoint", !.user_id = user_id,
                             !.usage_type = usage_type,
                             !.duration_seconds = duration_seconds,
                             !.file_size_bytes = file_size_bytes]
       IN  call' = [call EXCEPT ![p] =
                       IF valid # "valid" THEN Respond(c, 422, valid)
                       ELSE record_usage_begin(c)]
    /\ UNCHANGED <<today, subscription, transcriptions, usage_tracking, next_job, ticks,
                   reset_vars, limiter_vars, middleware_vars, retry_vars, transcription_vars, bulk_vars>>

\* UsageTrackingMiddleware._perform_usage_check, lines 133-157: the duration and the
\* size are read from the JSON body of the request with int(...) and handed to
\* check_usage_limits before the endpoint has validated the body
MiddlewareUsageCheck(p, user_id, duration, file_size) ==
    /\ CanStart(p)
    /\ LET decision == check_usage_limits(user_id, duration, file_size)
           c == [Idle EXCEPT !.op = "middleware_check", !.user_id = user_id,
                             !.duration_seconds = duration,
                             !.file_size_bytes = file_size,
                             !.decision = decision]
       IN  call' = [call EXCEPT ![p] =
                       IF ~decision.ok THEN Respond(c, 200, "check failed, request passed on")
                       ELSE IF ~decision.can_process
                       THEN Respond(c, 429, "Usage limit exceeded")
                       ELSE Respond(c, 200, "request passed on")]
    /\ UNCHANGED <<today, subscription, transcriptions, usage_tracking, next_job, ticks,
                   reset_vars, limiter_vars, middleware_vars, retry_vars, transcription_vars, bulk_vars>>

\* the clock passes n months
MonthsPass(n) ==
    /\ ticks < MaxJumps
    /\ today' = Date(months_before(today, -n).year, months_before(today, -n).month, today.day)
    /\ ticks' = ticks + 1
    /\ UNCHANGED <<subscription, transcriptions, usage_tracking, next_job, call, reset_vars,
                   limiter_vars, middleware_vars, retry_vars, transcription_vars, bulk_vars>>

\* the clock passes midnight
Tick ==
    /\ ticks < MaxTicks
    /\ today' = NextDay(today)
    /\ ticks' = ticks + 1
    /\ UNCHANGED <<subscription, transcriptions, usage_tracking, next_job, call, reset_vars, limiter_vars, middleware_vars, retry_vars, transcription_vars, bulk_vars>>


\* a caller of the service calls get_current_usage (GET /usage/current)
GetCurrentUsage(p, user_id) ==
    /\ CanStart(p)
    /\ LET usage == get_current_usage(user_id)
           c == [Idle EXCEPT !.op = "usage", !.user_id = user_id, !.usage = usage]
       IN  call' = [call EXCEPT ![p] =
                       IF usage.ok THEN Respond(c, 200, "usage")
                       ELSE Respond(c, 500, "Failed to get usage data")]
    /\ UNCHANGED <<today, subscription, transcriptions, usage_tracking, next_job, ticks, reset_vars, limiter_vars, middleware_vars, retry_vars, transcription_vars, bulk_vars>>

-----------------------------------------------------------------------------
(* POST /transcription/start *)

JobsHaveRoom(user_id) ==
    transcriptions[user_id].pending + transcriptions[user_id].processing
        + transcriptions[user_id].completed
        + Cardinality({p \in Procs : call[p].pc = "st_create" /\ call[p].user_id = user_id})
    < MaxJobs

\* start_transcription, lines 85-134: file info, the admission check and its 429
StartCheck(p, user_id, estimated_duration, file_size) ==
    /\ CanStart(p)
    /\ LedgerHasRoom
    /\ JobsHaveRoom(user_id)
    /\ LET usage_check == check_usage_limits(user_id, estimated_duration, file_size)
           c == [Idle EXCEPT !.op = "start", !.user_id = user_id,
                             !.usage_type = TRANSCRIPTION,
                             !.duration_seconds = estimated_duration,
                             !.file_size_bytes = file_size,
                             !.decision = usage_check]
       IN  call' = [call EXCEPT ![p] =
                       IF ~usage_check.ok THEN Respond(c, 500, "Failed to check usage limits")
                       ELSE IF ~usage_check.can_process
                       THEN Respond(c, 429, "Usage limit exceeded")
                       ELSE IF ~usage_check.can_process_concurrent
                       THEN Respond(c, 429, "Concurrent processing limit reached")
                       ELSE [c EXCEPT !.pc = "st_create"]]
    /\ UNCHANGED <<today, subscription, transcriptions, usage_tracking, next_job, ticks, reset_vars, limiter_vars, middleware_vars, retry_vars, transcription_vars, bulk_vars>>

\* create_job: a new transcriptions row under a fresh job id, waiting to be processed
create_job(user_id) ==
    [transcriptions EXCEPT ![user_id].pending = @ + 1]

\* start_transcription, lines 136-154: the job is created and record_usage is
\* called for it with the estimated duration and the job's id
StartCreateJob(p) ==
    /\ call[p].pc = "st_create"
    /\ transcriptions' = create_job(call[p].user_id)
    /\ next_job' = next_job + 1
    /\ call' = [call EXCEPT ![p] =
                   record_usage_begin([call[p] EXCEPT !.transcription_id = JobId(next_job + 1)])]
    /\ UNCHANGED <<today, subscription, usage_tracking, ticks, reset_vars, limiter_vars, middleware_vars, retry_vars, transcription_vars, bulk_vars>>

\* process_job, the background task: the job's row becomes 'processing'
ProcessJob(user_id) ==
    /\ transcriptions[user_id].pending > 0
    /\ transcriptions' = [transcriptions EXCEPT ![user_id].pending = @ - 1,
                                                ![user_id].processing = @ + 1]
    /\ UNCHANGED <<today, subscription, usage_tracking, next_job, ticks, call, reset_vars, limiter_vars, middleware_vars, retry_vars, transcription_vars, bulk_vars>>

\* the job reaches a terminal status: its row becomes 'completed'
FinishJob(user_id) ==
    /\ transcriptions[user_id].processing > 0
    /\ transcriptions' = [transcriptions EXCEPT ![user_id].processing = @ - 1,
                                                ![user_id].completed = @ + 1]
    /\ UNCHANGED <<today, subscription, usage_tracking, next_job, ticks, call, reset_vars, limiter_vars, middleware_vars, retry_vars, transcription_vars, bulk_vars>>

\* get_user_limits, line 416
plan_order == <<"free", "starter", "pro", "enterprise">>

\* get_user_limits, line 417: plan_order.index(plan_name) if plan_name in plan_order
\* else 0 (the index counts from 0)
current_index(plan_name) ==
    IF \E i \in 1..Len(plan_order) : plan_order[i] = plan_name
    THEN (CHOOSE i \in 1..Len(plan_order) : plan_order[i] = plan_name) - 1
    ELSE 0

\* the upgrade options from the current plan on
upgrade_options_from_current(plan_name) ==
    [k \in 1..(Len(plan_order) - current_index(plan_name)) |->
        PLAN_CONFIGS[plan_order[current_index(plan_name) + k]]]

\* get_user_limits, lines 419-420: the limits of plan_order[current_index + 1:]
upgrade_options(plan_name) ==
    [k \in 1..(Len(plan_order) - (current_index(plan_name) + 1)) |->
        PLAN_CONFIGS[plan_order[current_index(plan_name) + 1 + k]]]

\* get_user_limits, lines 401-429: plan_name is that of the newest active or trialing
\* subscription, "free" without one
get_user_limits(user_id) ==
    [ok |-> TRUE,
     current_plan |-> PlanConfig(get_user_plan(user_id)),
     can_upgrade |-> Len(upgrade_options(get_user_plan(user_id))) > 0,
     upgrade_options |-> upgrade_options(get_user_plan(user_id))]

\* a caller of the service calls get_user_limits (GET /usage/limits)
GetUserLimits(p, user_id) ==
    /\ CanStart(p)
    /\ call' = [call EXCEPT ![p] =
                   Respond([Idle EXCEPT !.op = "limits", !.user_id = user_id,
                                        !.limits = get_user_limits(user_id)],
                           200, "limits")]
    /\ UNCHANGED <<today, subscription, transcriptions, usage_tracking, next_job, ticks,
                   reset_vars, limiter_vars, middleware_vars, retry_vars, transcription_vars, bulk_vars>>

\* get_concurrent_jobs_status, lines 580-621: the rows that are 'processing' or
\* 'pending' are fetched; current_jobs counts those that are 'processing'.  An absent
\* value (None) is the empty tuple, a present one a tuple of one number.
get_concurrent_jobs_status(user_id) ==
    LET plan_config == PlanConfig(get_user_plan(user_id))
        current_jobs == transcriptions[user_id].processing
        pending_jobs == transcriptions[user_id].pending
        queued == pending_jobs > 0 /\ current_jobs >= plan_config.max_concurrent_jobs
    IN  [ok |-> TRUE, user_id |-> user_id,
         current_jobs |-> current_jobs,
         max_jobs |-> plan_config.max_concurrent_jobs,
         available_slots |-> GREATEST(0, plan_config.max_concurrent_jobs - current_jobs),
         queue_position |-> IF queued THEN <<pending_jobs>> ELSE None,
         estimated_wait_time_seconds |-> IF queued THEN <<pending_jobs * 600>> ELSE None]

\* a caller of the service calls get_concurrent_jobs_status (GET /usage/concurrent)
GetConcurrentJobsStatus(p, user_id) ==
    /\ CanStart(p)
    /\ call' = [call EXCEPT ![p] =
                   Respond([Idle EXCEPT !.op = "jobs", !.user_id = user_id,
                                        !.jobs = get_concurrent_jobs_status(user_id)],
                           200, "jobs")]
    /\ UNCHANGED <<today, subscription, transcriptions, usage_tracking, next_job, ticks,
                   reset_vars, limiter_vars, middleware_vars, retry_vars, transcription_vars, bulk_vars>>

-----------------------------------------------------------------------------
(* perform_monthly_reset and the monthly reset service *)

\* a < b and a <= b on dates
DateKey(dt) == dt.year * 10000 + dt.month * 100 + dt.day

\* perform_monthly_reset, lines 530-540: the next reset date; InvalidDate where
\* date(...) raised ValueError
next_reset(creation_day, day) ==
    IF day.day >= creation_day
    THEN IF day.month = 12 THEN date(day.year + 1, 1, creation_day)
                           ELSE date(day.year, day.month + 1, creation_day)
    ELSE date(day.year, day.month, creation_day)

\* where perform_monthly_reset raised: HTTPException(500)
ResetFailed ==
    [ok |-> FALSE, user_id |-> "none", previous_credits_used |-> 0,
     new_credits_available |-> 0, reset_date |-> InvalidDate, next_reset_date |-> InvalidDate,
     billing_period_start |-> InvalidDate, billing_period_end |-> InvalidDate,
     reset_reason |-> "none"]

\* perform_monthly_reset, lines 511-574: the MonthlyResetResponse
monthly_reset_response(user_id, reason, current_usage, next) ==
    IF ~current_usage.ok \/ next = InvalidDate THEN ResetFailed
    ELSE [ok |-> TRUE, user_id |-> user_id,
          previous_credits_used |-> current_usage.credits_used,
          new_credits_available |-> PlanConfig(get_user_plan(user_id)).credits_per_month,
          reset_date |-> today, next_reset_date |-> next,
          billing_period_start |-> today, billing_period_end |-> PrevDay(next),
          reset_reason |-> reason]

perform_monthly_reset(user_id, reason) ==
    monthly_reset_response(user_id, reason, get_current_usage(user_id),
                           next_reset(users[user_id].created_at.day, today))

\* perform_monthly_reset, lines 547-556: UPDATE usage_tracking SET billing_period_end =
\* :today WHERE user_id = :user_id AND billing_period_end IS NULL (NULL is InvalidDate)
archive_usage(user_id) ==
    [i \in 1..Len(usage_tracking) |->
        IF usage_tracking[i].user_id = user_id
           /\ usage_tracking[i].billing_period_end = InvalidDate
        THEN [usage_tracking[i] EXCEPT !.billing_period_end = today]
        ELSE usage_tracking[i]]

\* the ledger after perform_monthly_reset: the UPDATE is rolled back where it raised
ledger_after_reset(user_id, reset_response) ==
    IF reset_response.ok THEN archive_usage(user_id) ELSE usage_tracking

\* the rows the LEFT JOIN of _find_users_requiring_reset yields for one account
JoinRows(user_id) == IF subscription_rows[user_id] = 0 THEN 1 ELSE subscription_rows[user_id]

\* _find_users_requiring_reset, lines 175-180: a ledger row of the account whose
\* billing_period_start is today or later
reset_already(user_id) ==
    \E i \in 1..Len(usage_tracking) :
        /\ usage_tracking[i].user_id = user_id
        /\ DateKey(usage_tracking[i].billing_period_start) >= DateKey(today)

\* _find_users_requiring_reset, lines 162-173: the account is active and its creation
\* day is today's day, or today is the last day of its month and the creation day is
\* greater than the day of tomorrow
anniversary_today(user_id) ==
    /\ users[user_id].is_active
    /\ \/ users[user_id].created_at.day = today.day
       \/ /\ users[user_id].created_at.day > NextDay(today).day
          /\ today.day = DaysInMonth(today.year, today.month)

requires_reset(user_id) == anniversary_today(user_id) /\ ~reset_already(user_id)

\* one account's rows of the result
user_rows(user_id) ==
    IF requires_reset(user_id) THEN [i \in 1..JoinRows(user_id) |-> user_id] ELSE <<>>

\* _find_users_requiring_reset: ORDER BY u.created_at (u1 signed up before u2)
find_users_requiring_reset == user_rows("u1") \o user_rows("u2")

\* perform_daily_reset_check: the tasks of one batch are gathered together
batch_size == 10

\* no bulk run was started yet
NoRun ==
    [kind |-> "none", pc |-> "idle", today |-> InvalidDate, users_to_reset |-> <<>>,
     tasks |-> <<>>, i |-> 0, successful_resets |-> 0, failed_resets |-> 0, runs |-> 0]

RunIdle == run.pc \in {"idle", "done"}

\* a row of audit_logs written by _log_reset_audit; the two credit figures are those
\* of the response, 0 where the reset failed and the details carry none
AuditRow(user_id, reset_response) ==
    [user_id |-> user_id, action |-> "monthly_reset", success |-> reset_response.ok,
     reset_date |-> today,
     previous_credits_used |-> reset_response.previous_credits_used,
     new_credits_available |-> reset_response.new_credits_available]

\* a bulk run begins: the locals of perform_daily_reset_check / manual_reset_all_users
begin_run(kind, users_to_reset) ==
    [kind |-> kind, pc |-> IF users_to_reset = <<>> THEN "done"
                           ELSE IF kind = "daily" THEN "gather" ELSE "loop",
     today |-> today, users_to_reset |-> users_to_reset,
     tasks |-> [i \in 1..Len(users_to_reset) |-> "new"], i |-> 1,
     successful_resets |-> 0, failed_resets |-> 0, runs |-> run.runs + 1]

\* perform_daily_reset_check, lines 95-120: the scheduler fires; the accounts are
\* selected and the tasks of the first batch are handed to asyncio.gather.  run.i is
\* the place of the batch's first row in users_to_reset.
PerformDailyResetCheck ==
    /\ RunIdle
    /\ run.runs < MaxRuns
    /\ run' = begin_run("daily", find_users_requiring_reset)
    /\ UNCHANGED <<today, subscription, transcriptions, usage_tracking, next_job, ticks, call,
                   subscription_rows, audit_logs, reset_in_progress, resets, limiter_vars, middleware_vars, retry_vars, transcription_vars, bulk_vars>>

\* perform_daily_reset_check, lines 112-113: batch = users_to_reset[i:i + batch_size]
in_batch(i) == i \in 1..Len(run.tasks) /\ i >= run.i /\ i < run.i + batch_size

\* _perform_user_reset, lines 201-208: the task of the k-th row of the batch starts
\* (tasks start in the order of the batch); an account already in reset_in_progress
\* makes it return None
PerformUserResetBegin(k) ==
    /\ run.pc = "gather"
    /\ in_batch(run.i + k - 1)
    /\ run.tasks[run.i + k - 1] = "new"
    /\ \A j \in 1..(run.i + k - 2) : run.tasks[j] # "new"
    /\ IF run.users_to_reset[run.i + k - 1] \in reset_in_progress
       THEN /\ run' = [run EXCEPT !.tasks[run.i + k - 1] = "none"]
            /\ UNCHANGED reset_in_progress
       ELSE /\ run' = [run EXCEPT !.tasks[run.i + k - 1] = "resetting"]
            /\ reset_in_progress' = reset_in_progress \cup {run.users_to_reset[run.i + k - 1]}
    /\ UNCHANGED <<today, subscription, transcriptions, usage_tracking, next_job, ticks, call,
                   subscription_rows, audit_logs, resets, limiter_vars, middleware_vars, retry_vars, transcription_vars, bulk_vars>>

\* _perform_user_reset, lines 210-235: perform_monthly_reset, the audit row of the
\* outcome, and the account leaves reset_in_progress; a failure is raised again.
\* Every task of the batch has run to its first await before the store answers one.
PerformUserReset(k) ==
    /\ run.pc = "gather"
    /\ run.i + k - 1 \in 1..Len(run.tasks)
    /\ run.tasks[run.i + k - 1] = "resetting"
    /\ \A j \in 1..Len(run.tasks) : in_batch(j) => run.tasks[j] # "new"
    /\ LET user_id == run.users_to_reset[run.i + k - 1]
           reset_response == perform_monthly_reset(user_id, "Automated monthly reset")
       IN  /\ usage_tracking' = ledger_after_reset(user_id, reset_response)
           /\ resets' = IF reset_response.ok THEN Append(resets, reset_response) ELSE resets
           /\ audit_logs' = Append(audit_logs, AuditRow(user_id, reset_response))
           /\ reset_in_progress' = reset_in_progress \ {user_id}
           /\ run' = [run EXCEPT !.tasks[run.i + k - 1] = IF reset_response.ok THEN "response"
                                                                               ELSE "exception"]
    /\ UNCHANGED <<today, subscription, transcriptions, next_job, ticks, call,
                   subscription_rows, limiter_vars, middleware_vars, retry_vars, transcription_vars, bulk_vars>>

\* results of asyncio.gather(..., return_exceptions=True), for the rows of the batch,
\* that are (are not) exceptions
CountResults(tasks, exceptions) ==
    Cardinality({i \in 1..Len(tasks) : in_batch(i) /\ (tasks[i] = "exception") = exceptions})

\* a gather that returns once every task of the batch has started
gather_started(tasks) == \A i \in 1..Len(tasks) : in_batch(i) => tasks[i] # "new"

\* perform_daily_reset_check, line 120: await asyncio.gather(*tasks,
\* return_exceptions=True) returns once every task of the batch has returned or raised
gather(tasks) ==
    \A i \in 1..Len(tasks) : in_batch(i) => tasks[i] \in {"none", "response", "exception"}

\* perform_daily_reset_check, lines 122-138: every task of the batch has returned; its
\* results are counted, and after the pause the next batch is handed to asyncio.gather
\* or, after the last one, the two counters are recorded as metrics
DailyResetTally ==
    /\ run.pc = "gather"
    /\ gather(run.tasks)
    /\ run' = [run EXCEPT !.pc = IF run.i + batch_size > Len(run.tasks) THEN "done" ELSE "gather",
                          !.i = IF run.i + batch_size > Len(run.tasks) THEN @ ELSE @ + batch_size,
                          !.successful_resets = @ + CountResults(run.tasks, FALSE),
                          !.failed_resets = @ + CountResults(run.tasks, TRUE)]
    /\ UNCHANGED <<today, subscription, transcriptions, usage_tracking, next_job, ticks, call,
                   subscription_rows, audit_logs, reset_in_progress, resets, limiter_vars, middleware_vars, retry_vars, transcription_vars, bulk_vars>>

\* manual_reset_all_users, lines 480-488: an administrator starts the bulk reset
ManualResetAllUsers ==
    /\ RunIdle
    /\ run.runs < MaxRuns
    /\ run' = begin_run("manual", find_users_requiring_reset)
    /\ UNCHANGED <<today, subscription, transcriptions, usage_tracking, next_job, ticks, call,
                   subscription_rows, audit_logs, reset_in_progress, resets, limiter_vars, middleware_vars, retry_vars, transcription_vars, bulk_vars>>

\* manual_reset_all_users, lines 490-499: one turn of the loop
ManualResetUser ==
    /\ run.pc = "loop"
    /\ LET user_id == run.users_to_reset[run.i]
           reset_response == perform_monthly_reset(user_id, "Manual bulk reset")
       IN  /\ usage_tracking' = ledger_after_reset(user_id, reset_response)
           /\ resets' = IF reset_response.ok THEN Append(resets, reset_response) ELSE resets
           /\ run' = [run EXCEPT
                         !.tasks[run.i] = IF reset_response.ok THEN "response" ELSE "exception",
                         !.successful_resets = IF reset_response.ok THEN @ + 1 ELSE @,
                         !.failed_resets = IF reset_response.ok THEN @ ELSE @ + 1,
                         !.i = @ + 1,
                         !.pc = IF run.i = Len(run.users_to_reset) THEN "done" ELSE "loop"]
    /\ UNCHANGED <<today, subscription, transcriptions, next_job, ticks, call,
                   subscription_rows, audit_logs, reset_in_progress, limiter_vars, middleware_vars, retry_vars, transcription_vars, bulk_vars>>

\* the manual bulk trigger was not called yet
NoBulk ==
    [pc |-> "idle", users_to_reset |-> <<>>, i |-> 0, successful |-> 0, failed |-> 0,
     runs |-> 0]

\* manual_reset_all_users, lines 480-488, called while the scheduler may be running:
\* the accounts are selected
BulkResetAllUsers ==
    /\ bulk.pc \in {"idle", "done"}
    /\ bulk.runs < MaxBulk
    /\ bulk' = [pc |-> IF find_users_requiring_reset = <<>> THEN "done" ELSE "loop",
                users_to_reset |-> find_users_requiring_reset, i |-> 1,
                successful |-> 0, failed |-> 0, runs |-> bulk.runs + 1]
    /\ UNCHANGED <<today, subscription, transcriptions, usage_tracking, next_job, ticks, call,
                   reset_vars, limiter_vars, middleware_vars, retry_vars, transcription_vars>>

\* manual_reset_all_users, lines 490-494: the loop awaits perform_monthly_reset of the
\* next account; reset_in_progress is neither read nor written
BulkResetBegin ==
    /\ bulk.pc = "loop"
    /\ bulk' = [bulk EXCEPT !.pc = "resetting"]
    /\ UNCHANGED <<today, subscription, transcriptions, usage_tracking, next_job, ticks, call,
                   reset_vars, limiter_vars, middleware_vars, retry_vars, transcription_vars>>

\* manual_reset_all_users, lines 494-499: perform_monthly_reset returns or raises, the
\* outcome is counted and the loop goes on
BulkResetEnd ==
    /\ bulk.pc = "resetting"
    /\ LET user_id == bulk.users_to_reset[bulk.i]
           reset_response == perform_monthly_reset(user_id, "Manual bulk reset")
       IN  /\ usage_tracking' = ledger_after_reset(user_id, reset_response)
           /\ resets' = IF reset_response.ok THEN Append(resets, reset_response) ELSE resets
           /\ bulk' = [bulk EXCEPT
                          !.successful = IF reset_response.ok THEN @ + 1 ELSE @,
                          !.failed = IF reset_response.ok THEN @ ELSE @ + 1,
                          !.i = @ + 1,
                          !.pc = IF bulk.i = Len(bulk.users_to_reset) THEN "done" ELSE "loop"]
    /\ UNCHANGED <<today, subscription, transcriptions, next_job, ticks, call,
                   subscription_rows, audit_logs, reset_in_progress, run, limiter_vars,
                   middleware_vars, retry_vars, transcription_vars>>

\* _get_user_billing_period for an account that signed up on day creation_day
GetUserBillingPeriod(p, creation_day) ==
    /\ CanStart(p)
    /\ LET billing_period == billing_period_on(creation_day, today)
           c == [Idle EXCEPT !.op = "period", !.creation_day = creation_day,
                             !.today = today, !.billing_period = billing_period]
       IN  call' = [call EXCEPT ![p] =
                       IF billing_period.ok THEN Respond(c, 200, "period")
                       ELSE Respond(c, 500, "ValueError")]
    /\ UNCHANGED <<today, subscription, transcriptions, usage_tracking, next_job, ticks,
                   reset_vars, limiter_vars, middleware_vars, retry_vars, transcription_vars, bulk_vars>>

-----------------------------------------------------------------------------
(* get_usage_history, cleanup_old_usage_data and POST /usage/reset *)

\* get_usage_history, line 334: TO_CHAR(CURRENT_DATE - INTERVAL 'n months', 'YYYY-MM')
window_start(months) ==
    MonthLabel(0, months_before(today, months).year, months_before(today, months).month)

\* get_usage_history, lines 332-334: the rows of the account whose label is not
\* less than that of the window's first month
history_rows(user_id, months) ==
    SelectSeq(usage_tracking,
              LAMBDA row : /\ row.user_id = user_id
                           /\ LabelKey(row.usage_month) >= LabelKey(window_start(months)))

\* GROUP BY usage_month: the rows of one label
group_rows(rows, label) == SelectSeq(rows, LAMBDA row : row.usage_month = label)

\* ORDER BY usage_month DESC
RECURSIVE OrderDesc(_)
OrderDesc(labels) ==
    IF labels = {} THEN <<>>
    ELSE LET greatest == CHOOSE x \in labels : \A y \in labels : LabelKey(x) >= LabelKey(y)
         IN  <<greatest>> \o OrderDesc(labels \ {greatest})

\* get_usage_history, lines 322-331 and 353-365: the UsageHistoryItem of one group
UsageHistoryItem(label, rows, plan_config) ==
    [month |-> label,
     credits_used |-> SumCredits(rows),
     credits_total |-> plan_config.credits_per_month,
     transcription_count |-> Len(rows),
     total_duration_minutes |-> SumDuration(rows) \div 60]

history_items(rows, plan_config) ==
    LET labels == OrderDesc({rows[i].usage_month : i \in 1..Len(rows)})
    IN  [k \in 1..Len(labels) |->
            UsageHistoryItem(labels[k], group_rows(rows, labels[k]), plan_config)]

\* get_usage_history, lines 348-370: the totals add up the items of the answer
RECURSIVE SumItems(_, _)
SumItems(items, field) ==
    IF items = <<>> THEN 0 ELSE Head(items)[field] + SumItems(Tail(items), field)

\* get_usage_history, lines 306-378
get_usage_history(user_id, months) ==
    LET items == history_items(history_rows(user_id, months), PlanConfig(get_user_plan(user_id)))
    IN  [ok |-> TRUE, history |-> items,
         total_lifetime_credits |-> SumItems(items, "credits_used"),
         total_lifetime_transcriptions |-> SumItems(items, "transcription_count"),
         total_lifetime_minutes |-> SumItems(items, "total_duration_minutes")]

\* a caller of the service calls get_usage_history (GET /usage/history takes
\* months from 1 to 24)
GetUsageHistory(p, user_id, months) ==
    /\ CanStart(p)
    /\ call' = [call EXCEPT ![p] =
                   Respond([Idle EXCEPT !.op = "history", !.user_id = user_id,
                                        !.months = months,
                                        !.history = get_usage_history(user_id, months)],
                           200, "history")]
    /\ UNCHANGED <<today, subscription, transcriptions, usage_tracking, next_job, ticks,
                   reset_vars, limiter_vars, middleware_vars, retry_vars, transcription_vars, bulk_vars>>

\* cleanup_old_usage_data, line 292: usage_date < date.today() - timedelta(days=730)
before_cutoff(row) == toordinal(row.usage_date) < toordinal(today) - 730

\* 'archived_' || usage_month
archived(label) == [label EXCEPT !.prefixes = @ + 1]

\* the UPDATE without "AND usage_month NOT LIKE 'archived_%'"
cleanup_rows_again(rows) ==
    [i \in 1..Len(rows) |->
        IF before_cutoff(rows[i])
        THEN [rows[i] EXCEPT !.usage_month = archived(@)]
        ELSE rows[i]]

\* cleanup_old_usage_data, lines 309-314: the UPDATE
cleanup_rows(rows) ==
    [i \in 1..Len(rows) |->
        IF before_cutoff(rows[i]) /\ rows[i].usage_month.prefixes = 0
        THEN [rows[i] EXCEPT !.usage_month = archived(@)]
        ELSE rows[i]]

\* cleanup_old_usage_data: the hourly job of the scheduler; it returns early where no
\* row is older than the cutoff
CleanupOldUsageData ==
    /\ usage_tracking' = IF \E i \in 1..Len(usage_tracking) : before_cutoff(usage_tracking[i])
                         THEN cleanup_rows(usage_tracking)
                         ELSE usage_tracking
    /\ UNCHANGED <<today, subscription, transcriptions, next_job, ticks, call, reset_vars,
                   limiter_vars, middleware_vars, retry_vars, transcription_vars, bulk_vars>>

\* POST /usage/reset: an administrator resets one account; a failure is answered 500
\* and leaves the store as it was
ResetEndpoint(user_id) ==
    /\ Len(resets) < MaxResets
    /\ LET reset_response == perform_monthly_reset(user_id, "Manual reset by admin")
       IN  /\ reset_response.ok
           /\ usage_tracking' = ledger_after_reset(user_id, reset_response)
           /\ resets' = Append(resets, reset_response)
    /\ UNCHANGED <<today, subscription, transcriptions, next_job, ticks, call,
                   subscription_rows, audit_logs, reset_in_progress, run, limiter_vars, middleware_vars, retry_vars, transcription_vars, bulk_vars>>

-----------------------------------------------------------------------------
(* ConcurrentProcessingLimiter (middleware/usage_tracking.py) *)

\* active_jobs = {}
NoJobsTracked == [u \in {} |-> {}]

\* self.active_jobs.get(str(user_id), set())
user_jobs(jobs, user_id) == IF user_id \in DOMAIN jobs THEN jobs[user_id] ELSE {}

\* jobs[user_id] = value
SetKey(jobs, user_id, value) ==
    [u \in DOMAIN jobs \cup {user_id} |-> IF u = user_id THEN value ELSE jobs[u]]

\* del jobs[user_id]
DelKey(jobs, user_id) == [u \in DOMAIN jobs \ {user_id} |-> jobs[u]]

\* start_job, lines 308-315: the account's set is created where missing, the id is added
start_job(jobs, user_id, job_id) ==
    SetKey(jobs, user_id, user_jobs(jobs, user_id) \cup {job_id})

\* finish_job that drops the account's entry
finish_job_clear(jobs, user_id, job_id) == DelKey(jobs, user_id)

\* finish_job, lines 317-325: discard the id from the account's set, if the account
\* has one, and delete a set that became empty
finish_job(jobs, user_id, job_id) ==
    IF user_id \notin DOMAIN jobs THEN jobs
    ELSE IF jobs[user_id] \ {job_id} = {} THEN DelKey(jobs, user_id)
    ELSE SetKey(jobs, user_id, jobs[user_id] \ {job_id})

\* the caller of the limiter has called nothing yet
NoTrack ==
    [op |-> "none", user_id |-> "none", job_id |-> NoId, started |-> FALSE,
     before |-> NoJobsTracked, last_before |-> NoJobsTracked, finishes |-> 0]

\* a caller awaits concurrent_limiter.start_job(user_id, job_id) and keeps what the
\* limiter tracked before the call
LimiterStartJob(user_id, job_id) ==
    /\ active_jobs' = start_job(active_jobs, user_id, job_id)
    /\ track' = [op |-> "start", user_id |-> user_id, job_id |-> job_id, started |-> TRUE,
                 before |-> active_jobs, last_before |-> active_jobs, finishes |-> 0]
    /\ UNCHANGED <<today, subscription, transcriptions, usage_tracking, next_job, ticks, call,
                   callers, reset_vars, middleware_vars, retry_vars, transcription_vars, bulk_vars>>

\* the call continues the caller's start_job of the same account and job
SameJob(user_id, job_id) ==
    track.started /\ track.user_id = user_id /\ track.job_id = job_id

\* a caller awaits concurrent_limiter.finish_job(user_id, job_id)
LimiterFinishJob(user_id, job_id) ==
    /\ SameJob(user_id, job_id) => track.finishes < MaxFinishes
    /\ active_jobs' = finish_job(active_jobs, user_id, job_id)
    /\ track' = IF SameJob(user_id, job_id)
                THEN [track EXCEPT !.op = "finish", !.last_before = active_jobs,
                                   !.finishes = @ + 1]
                ELSE [op |-> "finish", user_id |-> user_id, job_id |-> job_id,
                      started |-> FALSE, before |-> active_jobs,
                      last_before |-> active_jobs, finishes |-> 1]
    /\ UNCHANGED <<today, subscription, transcriptions, usage_tracking, next_job, ticks, call,
                   callers, reset_vars, middleware_vars, retry_vars, transcription_vars, bulk_vars>>

\* callers of the limiter that start a job only after can_start_processing allowed it
Callers == {"c1", "c2", "c3"}

\* a caller that has asked nothing yet
NoCaller == [pc |-> "idle", user_id |-> "none", job_id |-> NoId, max_concurrent |-> 0]

\* every caller tracks a job id of its own
CallerJob == [c1 |-> JobId(1), c2 |-> JobId(2), c3 |-> JobId(3)]

\* can_start_processing, lines 302-306
can_start_processing(jobs, user_id, max_concurrent) ==
    Cardinality(user_jobs(jobs, user_id)) < max_concurrent

\* a caller awaits can_start_processing(user_id, max_concurrent) with the plan's
\* max_concurrent_jobs and goes on to start_job where the answer is True
CanStartProcessing(c, user_id) ==
    /\ callers[c].pc \in {"idle", "refused"}
    /\ LET max_concurrent == PlanConfig(get_user_plan(user_id)).max_concurrent_jobs
       IN  callers' = [callers EXCEPT ![c] =
                          [pc |-> IF can_start_processing(active_jobs, user_id, max_concurrent)
                                  THEN "allowed" ELSE "refused",
                           user_id |-> user_id, job_id |-> CallerJob[c],
                           max_concurrent |-> max_concurrent]]
    /\ UNCHANGED <<today, subscription, transcriptions, usage_tracking, next_job, ticks, call,
                   active_jobs, track, reset_vars, middleware_vars, retry_vars, transcription_vars, bulk_vars>>

\* the caller awaits start_job(user_id, job_id), lines 308-315
CallerStartJob(c) ==
    /\ callers[c].pc = "allowed"
    /\ active_jobs' = start_job(active_jobs, callers[c].user_id, callers[c].job_id)
    /\ callers' = [callers EXCEPT ![c].pc = "started"]
    /\ UNCHANGED <<today, subscription, transcriptions, usage_tracking, next_job, ticks, call,
                   track, reset_vars, middleware_vars, retry_vars, transcription_vars, bulk_vars>>

\* the caller's job ends: it awaits finish_job(user_id, job_id), lines 317-325
CallerFinishJob(c) ==
    /\ callers[c].pc = "started"
    /\ active_jobs' = finish_job(active_jobs, callers[c].user_id, callers[c].job_id)
    /\ callers' = [callers EXCEPT ![c] = NoCaller]
    /\ UNCHANGED <<today, subscription, transcriptions, usage_tracking, next_job, ticks, call,
                   track, reset_vars, middleware_vars, retry_vars, transcription_vars, bulk_vars>>

-----------------------------------------------------------------------------
(* UsageTrackingMiddleware *)

\* a request dispatch has not seen yet
NoRequest ==
    [pc |-> "none", user_id |-> "none", can_process |-> TRUE, processing_id |-> None,
     call_next |-> 0, recorded |-> FALSE, status |-> 0]

\* dispatch may take the next request of the connection
CanDispatch(p) == requests[p].pc \in {"none", "done"}

\* requests whose downstream handler is running
Handling == {p \in Procs : requests[p].pc = "handler"}

\* _perform_usage_check, lines 133-160: the check's can_process, and True where the
\* check raised
perform_usage_check(user_id, estimated_duration, file_size) ==
    LET check_response == check_usage_limits(user_id, estimated_duration, file_size)
    IN  IF ~check_response.ok THEN TRUE ELSE check_response.can_process

\* _start_processing_tracking, line 206: f"{user_id}_{int(time.time())}"
new_processing_id(user_id) == <<user_id, now>>

\* _start_processing_tracking, lines 208-212: the account's set is created where
\* missing, the id is added
start_processing_tracking(jobs, user_id) ==
    SetKey(jobs, user_id, user_jobs(jobs, user_id) \cup {new_processing_id(user_id)})

\* _stop_processing_tracking, lines 219-226: discard the id, delete the account's key
\* once its set is empty
stop_processing_tracking(jobs, user_id, processing_id) ==
    IF user_id \notin DOMAIN jobs THEN jobs
    ELSE IF jobs[user_id] \ {processing_id} = {} THEN DelKey(jobs, user_id)
    ELSE SetKey(jobs, user_id, jobs[user_id] \ {processing_id})

\* _record_usage_from_response, lines 230-266: record_usage with the constants of
\* _extract_usage_from_response (no duration, no transcription id); an exception of
\* record_usage is logged and dropped
usage_from_response(user_id) ==
    [user_id |-> user_id, transcription_id |-> NoId, usage_type |-> TRANSCRIPTION,
     duration_seconds |-> 0, billing_period |-> get_user_billing_period(user_id)]

record_usage_from_response(ledger, user_id) ==
    IF usage_from_response(user_id).billing_period.ok
    THEN Append(ledger, UsageRow(usage_from_response(user_id)))
    ELSE ledger

\* dispatch, lines 56-93, for an authenticated POST to one of USAGE_CHECK_ENDPOINTS:
\* the usage check and its 429, the processing id, and the call of the downstream handler
Dispatch(p, user_id, estimated_duration, file_size) ==
    /\ CanDispatch(p)
    /\ Len(usage_tracking) + Cardinality(Handling) < MaxLedger
    /\ LET can_process == perform_usage_check(user_id, estimated_duration, file_size)
           r == [NoRequest EXCEPT !.user_id = user_id, !.can_process = can_process]
       IN  IF ~can_process
           THEN /\ requests' = [requests EXCEPT ![p] = [r EXCEPT !.pc = "done", !.status = 429]]
                /\ UNCHANGED processing_jobs
           ELSE /\ requests' = [requests EXCEPT ![p] =
                                   [r EXCEPT !.pc = "handler",
                                             !.processing_id = new_processing_id(user_id),
                                             !.call_next = 1]]
                /\ processing_jobs' = start_processing_tracking(processing_jobs, user_id)
    /\ UNCHANGED <<today, subscription, transcriptions, usage_tracking, next_job, ticks, call,
                   reset_vars, limiter_vars, retry_vars, transcription_vars, bulk_vars, enable_enforcement, now>>

\* dispatch, lines 95-108: call_next returns a response. Of the call inside the try
\* block a response below 400 is recorded and the finally clause stops the tracking;
\* the response of the call in the exception handler is returned as it is
HandlerReturns(p, status_code) ==
    /\ requests[p].pc = "handler"
    /\ requests' = [requests EXCEPT ![p] =
                       [@ EXCEPT !.pc = "done", !.status = status_code,
                                 !.recorded = @ \/ (requests[p].call_next = 1
                                                    /\ status_code < 400)]]
    /\ usage_tracking' = IF requests[p].call_next = 1 /\ status_code < 400
                         THEN record_usage_from_response(usage_tracking, requests[p].user_id)
                         ELSE usage_tracking
    /\ processing_jobs' = IF requests[p].call_next = 1
                          THEN stop_processing_tracking(processing_jobs, requests[p].user_id,
                                                        requests[p].processing_id)
                          ELSE processing_jobs
    /\ UNCHANGED <<today, subscription, transcriptions, next_job, ticks, call,
                   reset_vars, limiter_vars, retry_vars, transcription_vars, bulk_vars, enable_enforcement, now>>

\* dispatch, lines 99-108: call_next raises. Of the call inside the try block the
\* finally clause stops the tracking and the exception handler of line 106 calls
\* call_next again; an exception of that call leaves dispatch (500)
HandlerRaises(p) ==
    /\ requests[p].pc = "handler"
    /\ requests' = [requests EXCEPT ![p] =
                       IF requests[p].call_next = 1
                       THEN [@ EXCEPT !.call_next = 2]
                       ELSE [@ EXCEPT !.pc = "done", !.status = 500]]
    /\ processing_jobs' = IF requests[p].call_next = 1
                          THEN stop_processing_tracking(processing_jobs, requests[p].user_id,
                                                        requests[p].processing_id)
                          ELSE processing_jobs
    /\ UNCHANGED <<today, subscription, transcriptions, usage_tracking, next_job, ticks, call,
                   reset_vars, limiter_vars, retry_vars, transcription_vars, bulk_vars, enable_enforcement, now>>

\* a second of the clock passes
SecondPasses ==
    /\ now < MaxSeconds
    /\ now' = now + 1
    /\ UNCHANGED <<today, subscription, transcriptions, usage_tracking, next_job, ticks, call,
                   reset_vars, limiter_vars, retry_vars, transcription_vars, bulk_vars, enable_enforcement, processing_jobs, requests>>

-----------------------------------------------------------------------------
(* TranscriptionService: create_job, process_job and cancel_job *)

\* the job ids uuid4 hands out, and the account that creates each
ServiceJobs == {"j1", "j2"}

JobOwner == [j1 |-> "u1", j2 |-> "u2"]

\* JobStatus
PENDING == "pending"
PROCESSING == "processing"
COMPLETED == "completed"
FAILED == "failed"
CANCELLED == "cancelled"

\* a job id that is not in self.jobs
NoJob == [status |-> "none", pc |-> "none", cancel_job |-> "none"]

\* POST /transcription/start, endpoint lines 31-42: create_job (lines 35-60) stores
\* the job as pending and process_job is added to the background tasks
ServiceCreateJob(job_id) ==
    /\ service_jobs[job_id].status = "none"
    /\ service_jobs' = [service_jobs EXCEPT ![job_id] = [NoJob EXCEPT !.status = PENDING,
                                                                  !.pc = "scheduled"]]
    /\ UNCHANGED <<today, subscription, transcriptions, usage_tracking, next_job, ticks, call,
                   reset_vars, limiter_vars, middleware_vars, retry_vars, bulk_vars, service_active_jobs>>

\* process_job, lines 64-72: the background task starts; the job is found and its
\* status is set to processing
ProcessJobBegin(job_id) ==
    /\ service_jobs[job_id].pc = "scheduled"
    /\ service_jobs' = [service_jobs EXCEPT ![job_id].status = PROCESSING,
                                            ![job_id].pc = "pipeline"]
    /\ UNCHANGED <<today, subscription, transcriptions, usage_tracking, next_job, ticks, call,
                   reset_vars, limiter_vars, middleware_vars, retry_vars, bulk_vars, service_active_jobs>>

\* process_job, lines 76-118: the awaited steps of the pipeline have returned; the
\* result is stored, the status is set to completed and _save_job_result is awaited
ProcessJobCompleted(job_id) ==
    /\ service_jobs[job_id].pc = "pipeline"
    /\ service_jobs' = [service_jobs EXCEPT ![job_id].status = COMPLETED,
                                            ![job_id].pc = "saving"]
    /\ UNCHANGED <<today, subscription, transcriptions, usage_tracking, next_job, ticks, call,
                   reset_vars, limiter_vars, middleware_vars, retry_vars, bulk_vars, service_active_jobs>>

\* process_job, lines 118-120 and 130-134: _save_job_result has returned; the finally
\* clause drops the job's task
ProcessJobSaved(job_id) ==
    /\ service_jobs[job_id].pc = "saving"
    /\ service_jobs' = [service_jobs EXCEPT ![job_id].pc = "returned"]
    /\ service_active_jobs' = service_active_jobs \ {job_id}
    /\ UNCHANGED <<today, subscription, transcriptions, usage_tracking, next_job, ticks, call,
                   reset_vars, limiter_vars, middleware_vars, retry_vars, bulk_vars>>

\* process_job, lines 122-134: an awaited step of the pipeline, or _save_job_result,
\* raises an Exception; the status is set to failed
ProcessJobRaises(job_id) ==
    /\ service_jobs[job_id].pc \in {"pipeline", "saving"}
    /\ service_jobs' = [service_jobs EXCEPT ![job_id].status = FAILED,
                                            ![job_id].pc = "returned"]
    /\ service_active_jobs' = service_active_jobs \ {job_id}
    /\ UNCHANGED <<today, subscription, transcriptions, usage_tracking, next_job, ticks, call,
                   reset_vars, limiter_vars, middleware_vars, retry_vars, bulk_vars>>

\* cancel_job, lines 268-274: the answer is False for an unknown job, another
\* account's job and a job in a terminal status
can_cancel(job_id, user_id) ==
    /\ service_jobs[job_id].status # "none"
    /\ JobOwner[job_id] = user_id
    /\ service_jobs[job_id].status \notin {COMPLETED, FAILED, CANCELLED}

\* cancel_job, lines 266-286: a job that has a task in active_jobs has the task
\* cancelled (process_job is left at its await) and dropped; the status is set to
\* cancelled
CancelJob(job_id, user_id) ==
    /\ service_jobs' = [service_jobs EXCEPT ![job_id] =
                           IF ~can_cancel(job_id, user_id)
                           THEN [@ EXCEPT !.cancel_job = "False"]
                           ELSE [@ EXCEPT !.status = CANCELLED, !.cancel_job = "True",
                                          !.pc = IF job_id \in service_active_jobs
                                                 THEN "returned" ELSE @]]
    /\ service_active_jobs' = IF can_cancel(job_id, user_id)
                              THEN service_active_jobs \ {job_id}
                              ELSE service_active_jobs
    /\ UNCHANGED <<today, subscription, transcriptions, usage_tracking, next_job, ticks, call,
                   reset_vars, limiter_vars, middleware_vars, retry_vars, bulk_vars>>

-----------------------------------------------------------------------------
(* RetryService: with_retry and the circuit breaker *)

\* CircuitState
CLOSED == "closed"
OPEN == "open"
HALF_OPEN == "half_open"

\* RetryConfig: the defaults of the backoff, and the two exception lists
base_delay == 1
max_delay == 60
exponential_base == 2

retryable_exceptions == {"ExternalAPIError", "ProcessingError", "TimeoutError", "ConnectionError"}

non_retryable_exceptions == {"ValueError", "TypeError", "KeyError", "AttributeError"}

\* CircuitBreakerConfig: the defaults, which _record_failure and _record_success use
failure_threshold == 5
recovery_timeout == 60
success_threshold == 3

\* CircuitBreakerState(), as _get_circuit_state creates it; total_requests,
\* total_failures and last_success_time are written and read by the status report only
CircuitBreakerState ==
    [state |-> CLOSED, failure_count |-> 0, success_count |-> 0, last_failure_time |-> None]

\* a caller that has not called with_retry yet
NoRetry ==
    [pc |-> "idle", max_attempts |-> 0, circuit_breaker_name |-> FALSE, attempt |-> 0,
     attempts |-> <<>>, delay |-> 0, outcome |-> "none", calls |-> 0]

\* _check_circuit_breaker, lines 221-223: the recovery timeout has passed since the
\* last failure
recovery_elapsed(state) ==
    /\ state.last_failure_time # None
    /\ utcnow - state.last_failure_time[1] > recovery_timeout

\* _check_circuit_breaker, lines 219-230: CircuitBreakerOpenError is raised
circuit_rejects(state) == state.state = OPEN /\ ~recovery_elapsed(state)

\* _check_circuit_breaker, lines 219-227: an open circuit whose timeout has passed
\* becomes half open
check_circuit_breaker(state) ==
    IF state.state = OPEN /\ recovery_elapsed(state)
    THEN [state EXCEPT !.state = HALF_OPEN, !.success_count = 0]
    ELSE state

\* _record_success, lines 232-245
record_success(state) ==
    IF state.state # HALF_OPEN THEN state
    ELSE IF state.success_count + 1 >= success_threshold
    THEN [state EXCEPT !.state = CLOSED, !.failure_count = 0, !.success_count = 0]
    ELSE [state EXCEPT !.success_count = @ + 1]

\* _record_failure, lines 247-261
record_failure(state) ==
    IF state.state \in {CLOSED, HALF_OPEN} /\ state.failure_count + 1 >= failure_threshold
    THEN [state EXCEPT !.failure_count = @ + 1, !.last_failure_time = <<utcnow>>,
                       !.state = OPEN, !.success_count = 0]
    ELSE [state EXCEPT !.failure_count = @ + 1, !.last_failure_time = <<utcnow>>]

\* an _is_retryable_exception that retries every exception but the listed ones
is_retryable_exception_unlisted(exception) == exception \notin non_retryable_exceptions

\* _is_retryable_exception, lines 179-190
is_retryable_exception(exception) ==
    IF exception \in non_retryable_exceptions THEN FALSE
    ELSE IF exception \in retryable_exceptions THEN TRUE
    ELSE FALSE

\* _calculate_delay, lines 192-206, in whole seconds and without jitter
calculate_delay(attempt) ==
    IF base_delay * exponential_base ^ attempt < max_delay
    THEN base_delay * exponential_base ^ attempt
    ELSE max_delay

\* with_retry, lines 117-138: the circuit check of a call that names a circuit
\* breaker, and the first attempt's call of the operation
WithRetry(p, max_attempts, circuit_breaker_name) ==
    /\ retry[p].pc \in {"idle", "done"}
    /\ retry[p].calls < MaxCalls
    /\ LET r == [NoRetry EXCEPT !.max_attempts = max_attempts,
                                !.circuit_breaker_name = circuit_breaker_name,
                                !.calls = retry[p].calls + 1]
       IN  IF circuit_breaker_name /\ circuit_rejects(circuit)
           THEN /\ retry' = [retry EXCEPT ![p] =
                                [r EXCEPT !.pc = "done", !.outcome = "CircuitBreakerOpenError"]]
                /\ UNCHANGED circuit
           ELSE /\ retry' = [retry EXCEPT ![p] = [r EXCEPT !.pc = "operation"]]
                /\ circuit' = IF circuit_breaker_name THEN check_circuit_breaker(circuit)
                              ELSE circuit
    /\ UNCHANGED <<today, subscription, transcriptions, usage_tracking, next_job, ticks, call,
                   reset_vars, limiter_vars, middleware_vars, bulk_vars, transcription_vars, utcnow>>

\* with_retry, lines 140-145: the operation returns; the success is recorded and the
\* result returned
after_success(r) ==
    [r EXCEPT !.pc = "done", !.outcome = "result", !.attempts = Append(@, "result")]

\* with_retry, lines 147-172: the operation raises; an exception that is not
\* retryable is raised again, the last attempt's exception is raised after the loop,
\* and any other attempt is followed by a sleep of the backoff delay
after_failure(r, exception) ==
    IF ~is_retryable_exception(exception) \/ r.attempt >= r.max_attempts - 1
    THEN [r EXCEPT !.pc = "done", !.outcome = exception, !.attempts = Append(@, exception)]
    ELSE [r EXCEPT !.pc = "sleeping", !.attempts = Append(@, exception),
                   !.delay = calculate_delay(r.attempt)]

\* with_retry, lines 126-172: the awaited operation returns its result or raises
OperationReturns(p, outcome) ==
    /\ retry[p].pc = "operation"
    /\ retry' = [retry EXCEPT ![p] = IF outcome = "result" THEN after_success(@)
                                     ELSE after_failure(@, outcome)]
    /\ circuit' = IF ~retry[p].circuit_breaker_name THEN circuit
                  ELSE IF outcome = "result" THEN record_success(circuit)
                  ELSE record_failure(circuit)
    /\ UNCHANGED <<today, subscription, transcriptions, usage_tracking, next_job, ticks, call,
                   reset_vars, limiter_vars, middleware_vars, bulk_vars, transcription_vars, utcnow>>

\* with_retry, lines 124-138 after line 167: asyncio.sleep(delay) has returned and the
\* next turn of the loop calls the operation.  The delays of the first attempts, one
\* and two seconds, are below the steps of the clock: the clock may or may not have
\* advanced while the caller slept.
RetryAttempt(p) ==
    /\ retry[p].pc = "sleeping"
    /\ retry' = [retry EXCEPT ![p].pc = "operation", ![p].attempt = @ + 1,
                              ![p].delay = 0]
    /\ UNCHANGED <<today, subscription, transcriptions, usage_tracking, next_job, ticks, call,
                   reset_vars, limiter_vars, middleware_vars, bulk_vars, transcription_vars, circuit, utcnow>>

\* the clock advances by some seconds
TimePasses(seconds) ==
    /\ utcnow + seconds <= MaxClock
    /\ utcnow' = utcnow + seconds
    /\ UNCHANGED <<today, subscription, transcriptions, usage_tracking, next_job, ticks, call,
                   reset_vars, limiter_vars, middleware_vars, bulk_vars, transcription_vars, circuit, retry>>

-----------------------------------------------------------------------------
(* Specifications *)

NoJobs == [u \in Users |-> [pending |-> 0, processing |-> 0, completed |-> 0]]

\* u1 has no subscription row (the free plan), u2 is on the starter plan
TwoPlans == [u \in Users |-> IF u = "u1" THEN "none" ELSE "starter"]

\* every subscribed account has one subscription row that is active and not ended
OneRowEach == [u \in Users |-> IF subscription[u] = "none" THEN 0 ELSE 1]

\* the state after construction, whatever the environment
InitState ==
    /\ usage_tracking = <<>>
    /\ next_job = 0
    /\ ticks = 0
    /\ call = [p \in Procs |-> Idle]
    /\ audit_logs = <<>>
    /\ reset_in_progress = {}
    /\ resets = <<>>
    /\ run = NoRun
    /\ active_jobs = NoJobsTracked
    /\ track = NoTrack
    /\ callers = [c \in Callers |-> NoCaller]
    /\ processing_jobs = NoJobsTracked
    /\ now = 0
    /\ requests = [p \in Procs |-> NoRequest]
    /\ bulk = NoBulk
    /\ service_jobs = [j \in ServiceJobs |-> NoJob]
    /\ service_active_jobs = {}
    /\ retry = [p \in Procs |-> NoRetry]
    /\ utcnow = 0

\* main.py line 124: settings.environment is not "development"
InitCommon ==
    /\ InitState
    /\ enable_enforcement = TRUE
    /\ circuit = CircuitBreakerState

\* Spec: concurrent callers of record_usage, with and without a correlation id
RaceIds == {NoId, CallerId(1)}

Init ==
    /\ InitCommon
    /\ today = Date(2025, 1, 14)
    /\ subscription = TwoPlans
    /\ subscription_rows = OneRowEach
    /\ transcriptions = NoJobs

Next ==
    \E p \in Procs :
        \/ \E u \in Users, id \in RaceIds : RecordUsageBegin(p, u, TRANSCRIPTION, 61, id)
        \/ RecordCheckExisting(p)
        \/ RecordInsert(p)

Spec == Init /\ [][Next]_vars

\* SpecLedger: one caller records usage of every kind and reads the aggregate
\* while the days pass
LedgerDurations == {0, 61}

LedgerStartDates == {Date(2025, 1, 14), Date(2025, 1, 30)}

InitLedger ==
    /\ InitCommon
    /\ today \in LedgerStartDates
    /\ subscription = TwoPlans
    /\ subscription_rows = OneRowEach
    /\ transcriptions = NoJobs

NextLedger ==
    \/ \E u \in Users, k \in UsageTypes, d \in LedgerDurations :
          RecordUsageBegin("p1", u, k, d, NoId)
    \/ RecordCheckExisting("p1")
    \/ RecordInsert("p1")
    \/ \E u \in Users : GetCurrentUsage("p1", u)
    \/ Tick

SpecLedger == InitLedger /\ [][NextLedger]_vars

\* SpecAdmit: concurrent POST /transcription/start requests of the free account
AdmitDurations == {600, 1500}

InitAdmit ==
    /\ InitCommon
    /\ today = Date(2025, 1, 14)
    /\ subscription = TwoPlans
    /\ subscription_rows = OneRowEach
    /\ transcriptions = NoJobs

NextAdmit ==
    \/ \E p \in Procs :
          \/ \E d \in AdmitDurations : StartCheck(p, "u1", d, 5 * MB)
          \/ StartCreateJob(p)
          \/ RecordCheckExisting(p)
          \/ RecordInsert(p)
          \/ GetConcurrentJobsStatus(p, "u1")
    \/ ProcessJob("u1")
    \/ FinishJob("u1")

SpecAdmit == InitAdmit /\ [][NextAdmit]_vars

\* SpecCheck: the quota evaluator over plans, usage levels, job counts, durations
\* and sizes; the usage level is built by record_usage
Plans == {"none", "starter", "pro", "enterprise", "legacy"}

ProcessingCounts == {0, 1, 2, 5, 10}

SeedDurations == {1500, 8400}

CheckDurations == {0, 1, 60, 61, 600, 1200}

CheckSizes == {1, 25 * MB, 25 * MB + 1, 50 * MB, 100 * MB + 1}

EndpointDurations == {0, 600}

EndpointSizes == {0, 25 * MB, 50 * MB}

InitCheck ==
    /\ InitCommon
    /\ today = Date(2025, 1, 14)
    /\ \E plan \in Plans : subscription = [u \in Users |-> IF u = "u1" THEN plan ELSE "none"]
    /\ subscription_rows = OneRowEach
    /\ \E n \in ProcessingCounts :
          transcriptions = [u \in Users |-> [pending |-> 0,
                                             processing |-> IF u = "u1" THEN n ELSE 0,
                                             completed |-> 0]]

NextCheck ==
    \/ \E d \in SeedDurations : RecordUsageBegin("p1", "u1", TRANSCRIPTION, d, NoId)
    \/ RecordCheckExisting("p1")
    \/ RecordInsert("p1")
    \/ \E d \in CheckDurations, s \in CheckSizes : CheckUsageLimits("p1", "u1", d, s)
    \/ \E d \in EndpointDurations, s \in EndpointSizes : CheckEndpoint("p1", "u1", d, s)
    \/ GetUserLimits("p1", "u1")

SpecCheck == InitCheck /\ [][NextCheck]_vars

\* SpecPeriod: the billing period of every creation day, on every day from
\* December 2023 to March 2024 (a leap year) and of February and March 2025
CreationDays == 1..31

PeriodDates ==
    {dt \in [year : 2023..2025, month : 1..12, day : 1..31] :
        /\ dt.day <= DaysInMonth(dt.year, dt.month)
        /\ \/ /\ DateKey(dt) >= DateKey(Date(2023, 12, 1))
              /\ DateKey(dt) <= DateKey(Date(2024, 3, 31))
           \/ /\ DateKey(dt) >= DateKey(Date(2025, 2, 1))
              /\ DateKey(dt) <= DateKey(Date(2025, 3, 31))}

InitPeriod ==
    /\ InitCommon
    /\ today \in PeriodDates
    /\ subscription = TwoPlans
    /\ subscription_rows = OneRowEach
    /\ transcriptions = NoJobs

NextPeriod ==
    \/ \E d \in CreationDays : GetUserBillingPeriod("p1", d)
    \/ Tick

SpecPeriod == InitPeriod /\ [][NextPeriod]_vars

\* SpecReset: bulk reset runs of the scheduler and of an administrator, on a day
\* without anniversary, on a 15th and on the last day of a 31-day month, while
\* usage is recorded; u2 may have a second subscription row
ResetDates == {Date(2025, 1, 14), Date(2025, 1, 15), Date(2025, 1, 31), Date(2025, 7, 31)}

InitReset ==
    /\ InitCommon
    /\ today \in ResetDates
    /\ subscription = TwoPlans
    /\ \E n \in {1, 2} : subscription_rows = [u \in Users |-> IF u = "u2" THEN n ELSE 0]
    /\ transcriptions = NoJobs

NextReset ==
    \/ PerformDailyResetCheck
    \/ \E i \in 1..batch_size : PerformUserResetBegin(i)
    \/ \E i \in 1..batch_size : PerformUserReset(i)
    \/ DailyResetTally
    \/ ManualResetAllUsers
    \/ ManualResetUser
    \/ \E u \in Users : RecordUsageBegin("p1", u, TRANSCRIPTION, 61, NoId)
    \/ RecordCheckExisting("p1")
    \/ RecordInsert("p1")

SpecReset == InitReset /\ [][NextReset]_vars

\* SpecOverlap: the scheduler's runs and an administrator's manual bulk trigger at the
\* same time
NextOverlap ==
    \/ PerformDailyResetCheck
    \/ \E k \in 1..batch_size : PerformUserResetBegin(k)
    \/ \E k \in 1..batch_size : PerformUserReset(k)
    \/ DailyResetTally
    \/ BulkResetAllUsers
    \/ BulkResetBegin
    \/ BulkResetEnd

SpecOverlap == InitReset /\ [][NextOverlap]_vars

\* SpecLimiter: callers start and finish two job ids of the two accounts in any order
LimiterJobs == {JobId(1), JobId(2)}

InitLimiter ==
    /\ InitCommon
    /\ today = Date(2025, 1, 14)
    /\ subscription = TwoPlans
    /\ subscription_rows = OneRowEach
    /\ transcriptions = NoJobs

NextLimiter ==
    \E u \in Users, j \in LimiterJobs :
        \/ LimiterStartJob(u, j)
        \/ LimiterFinishJob(u, j)

SpecLimiter == InitLimiter /\ [][NextLimiter]_vars

\* SpecCallers: three callers ask the limiter for the two accounts, start the job the
\* limiter allowed and finish it, in any interleaving
NextCallers ==
    \/ \E c \in Callers, u \in Users : CanStartProcessing(c, u)
    \/ \E c \in Callers : CallerStartJob(c)
    \/ \E c \in Callers : CallerFinishJob(c)

SpecCallers == InitLimiter /\ [][NextCallers]_vars

\* SpecHistory: one account records usage while months pass, the cleanup job runs,
\* an administrator resets the account and the history is read
JumpMonths == {1, 13}

HistoryMonths == {1, 12, 24}

InitHistory ==
    /\ InitCommon
    /\ today = Date(2025, 1, 14)
    /\ subscription = TwoPlans
    /\ subscription_rows = OneRowEach
    /\ transcriptions = NoJobs

NextHistory ==
    \/ RecordUsageBegin("p1", "u1", TRANSCRIPTION, 120, NoId)
    \/ RecordCheckExisting("p1")
    \/ RecordInsert("p1")
    \/ \E n \in JumpMonths : MonthsPass(n)
    \/ CleanupOldUsageData
    \/ ResetEndpoint("u1")
    \/ \E months \in HistoryMonths : GetUsageHistory("p1", "u1", months)

SpecHistory == InitHistory /\ [][NextHistory]_vars

\* SpecValidate: well-formed and malformed requests to record and to check usage,
\* at the endpoints, through the middleware and at the service
RecordInputs == {-5, 0, 61}

CheckInputs == {-60, 600}

SizeInputs == {-1, 5 * MB}

InitValidate ==
    /\ InitCommon
    /\ today = Date(2025, 1, 14)
    /\ subscription = TwoPlans
    /\ subscription_rows = OneRowEach
    /\ transcriptions = NoJobs

NextValidate ==
    \/ \E d \in RecordInputs, s \in SizeInputs : RecordEndpoint("p1", "u1", TRANSCRIPTION, d, s)
    \/ \E d \in RecordInputs : RecordUsageBegin("p1", "u1", TRANSCRIPTION, d, NoId)
    \/ RecordCheckExisting("p1")
    \/ RecordInsert("p1")
    \/ \E d \in CheckInputs, s \in SizeInputs : CheckEndpoint("p1", "u1", d, s)
    \/ \E d \in CheckInputs, s \in SizeInputs : MiddlewareUsageCheck("p1", "u1", d, s)

SpecValidate == InitValidate /\ [][NextValidate]_vars

\* SpecBatch: the scheduler's run on the last day of a month, where the selection
\* has eleven rows (one of u1, ten of u2, which has ten subscription rows), while u1
\* records usage
InitBatch ==
    /\ InitCommon
    /\ today = Date(2025, 1, 31)
    /\ subscription = TwoPlans
    /\ subscription_rows = [u \in Users |-> IF u = "u2" THEN batch_size ELSE 0]
    /\ transcriptions = NoJobs

NextBatch ==
    \/ PerformDailyResetCheck
    \/ \E k \in 1..batch_size : PerformUserResetBegin(k)
    \/ \E k \in 1..batch_size : PerformUserReset(k)
    \/ DailyResetTally
    \/ RecordUsageBegin("p1", "u1", TRANSCRIPTION, 61, NoId)
    \/ RecordCheckExisting("p1")
    \/ RecordInsert("p1")

SpecBatch == InitBatch /\ [][NextBatch]_vars

\* SpecAudit: usage is recorded on the day before an anniversary and on the
\* anniversary; the scheduler runs, and an administrator resets u1, on either day
InitAudit ==
    /\ InitCommon
    /\ today = Date(2025, 1, 14)
    /\ subscription = TwoPlans
    /\ subscription_rows = OneRowEach
    /\ transcriptions = NoJobs

NextAudit ==
    \/ PerformDailyResetCheck
    \/ \E k \in 1..batch_size : PerformUserResetBegin(k)
    \/ \E k \in 1..batch_size : PerformUserReset(k)
    \/ DailyResetTally
    \/ \E u \in Users : RecordUsageBegin("p1", u, TRANSCRIPTION, 61, NoId)
    \/ RecordCheckExisting("p1")
    \/ RecordInsert("p1")
    \/ Tick
    \/ ResetEndpoint("u1")

SpecAudit == InitAudit /\ [][NextAudit]_vars

\* SpecDispatch: the middleware serves two connections, in either environment; the
\* requests are small or over the plan's file size, the handler answers, fails or raises
DispatchSizes == {5 * MB, 50 * MB}

DispatchStatus == {200, 400}

InitDispatch ==
    /\ InitState
    /\ enable_enforcement \in BOOLEAN
    /\ circuit = CircuitBreakerState
    /\ today = Date(2025, 1, 14)
    /\ subscription = TwoPlans
    /\ subscription_rows = OneRowEach
    /\ transcriptions = NoJobs

NextDispatch ==
    \/ \E p \in Procs, u \in Users, s \in DispatchSizes : Dispatch(p, u, 600, s)
    \/ \E p \in Procs, status_code \in DispatchStatus : HandlerReturns(p, status_code)
    \/ \E p \in Procs : HandlerRaises(p)
    \/ SecondPasses

SpecDispatch == InitDispatch /\ [][NextDispatch]_vars

\* SpecJobs: two jobs are created and processed in the background while either
\* account asks to cancel either job
NextJobs ==
    \/ \E j \in ServiceJobs : ServiceCreateJob(j)
    \/ \E j \in ServiceJobs : ProcessJobBegin(j)
    \/ \E j \in ServiceJobs : ProcessJobCompleted(j)
    \/ \E j \in ServiceJobs : ProcessJobSaved(j)
    \/ \E j \in ServiceJobs : ProcessJobRaises(j)
    \/ \E j \in ServiceJobs, u \in Users : CancelJob(j, u)

SpecJobs == InitLimiter /\ [][NextJobs]_vars

\* SpecRetry: two callers of with_retry share one named circuit breaker; the
\* operation returns, raises an exception of either list or an unlisted one, and the
\* clock advances by half a minute or beyond the recovery timeout
RetryAttempts == {1, 3}

Outcomes == {"result", "ExternalAPIError", "ValueError", "RuntimeError"}

ClockSteps == {30, recovery_timeout + 1}

NextRetry ==
    \/ \E p \in Procs, n \in RetryAttempts, named \in BOOLEAN : WithRetry(p, n, named)
    \/ \E p \in Procs, outcome \in Outcomes : OperationReturns(p, outcome)
    \/ \E p \in Procs : RetryAttempt(p)
    \/ \E seconds \in ClockSteps : TimePasses(seconds)

SpecRetry == InitLimiter /\ [][NextRetry]_vars

\* SpecRetryFair: one caller of with_retry, on a circuit breaker that is new or has
\* recorded four failures of earlier calls; the awaited operation returns or raises,
\* and a caller whose sleep is over goes on
FourFailures ==
    [CircuitBreakerState EXCEPT !.failure_count = 4, !.last_failure_time = <<0>>]

InitRetry ==
    /\ InitState
    /\ enable_enforcement = TRUE
    /\ circuit \in {CircuitBreakerState, FourFailures}
    /\ today = Date(2025, 1, 14)
    /\ subscription = TwoPlans
    /\ subscription_rows = OneRowEach
    /\ transcriptions = NoJobs

NextRetryOne ==
    \/ \E n \in RetryAttempts, named \in BOOLEAN : WithRetry("p1", n, named)
    \/ \E outcome \in Outcomes : OperationReturns("p1", outcome)
    \/ RetryAttempt("p1")
    \/ \E seconds \in ClockSteps : TimePasses(seconds)

FairRetry ==
    /\ WF_vars(\E outcome \in Outcomes : OperationReturns("p1", outcome))
    /\ WF_vars(RetryAttempt("p1"))

SpecRetryFair == InitRetry /\ [][NextRetryOne]_vars /\ FairRetry

-----------------------------------------------------------------------------
(* Properties *)

\* ceil(n / 60) and the credit formula, as the specification states them
CeilMinutes(n) == IF n % 60 = 0 THEN n \div 60 ELSE n \div 60 + 1

SpecCredits(duration_s) == IF CeilMinutes(duration_s) >= 1 THEN CeilMinutes(duration_s) ELSE 1

\* the credits of a ledger row by its kind
RowCredits(row) ==
    IF row.usage_type = TRANSCRIPTION THEN SpecCredits(row.duration_seconds) ELSE 1

\* the ledger rows of an account that carry the account's current period
CurrentRows(u) ==
    {i \in 1..Len(usage_tracking) :
        /\ usage_tracking[i].user_id = u
        /\ usage_tracking[i].billing_period_start = get_user_billing_period(u).start
        /\ usage_tracking[i].billing_period_end = get_user_billing_period(u).end}

RECURSIVE SumRowCredits(_)
SumRowCredits(I) ==
    IF I = {} THEN 0
    ELSE LET i == CHOOSE x \in I : TRUE
         IN  RowCredits(usage_tracking[i]) + SumRowCredits(I \ {i})

Returned(p, ops) == call[p].op \in ops /\ call[p].pc = "done"

Decided(p) == Returned(p, {"check", "check_endpoint"}) /\ call[p].status = 200

PlanOf(u) == PlanConfig(get_user_plan(u))

\* C1 No double charge: no two ledger rows carry the same non-null correlation id,
\* and no two record_usage calls with the same correlation id have both succeeded.
C1_NoDoubleCharge ==
    /\ \A i, j \in 1..Len(usage_tracking) :
          (i # j /\ usage_tracking[i].transcription_id # NoId)
              => usage_tracking[i].transcription_id # usage_tracking[j].transcription_id
    /\ \A p, q \in Procs :
          (/\ p # q
           /\ Returned(p, {"record"}) /\ Returned(q, {"record"})
           /\ call[p].transcription_id # NoId
           /\ call[p].transcription_id = call[q].transcription_id)
              => ~(call[p].inserted /\ call[q].inserted)

\* C1 witness: two calls with the same correlation id ran concurrently (neither saw
\* a row when it was called); one inserted and the other was refused by the store
C1_Witness ==
    \E p, q \in Procs :
        /\ p # q
        /\ Returned(p, {"record"}) /\ Returned(q, {"record"})
        /\ call[p].transcription_id = CallerId(1) /\ call[q].transcription_id = CallerId(1)
        /\ ~call[p].existed /\ ~call[q].existed
        /\ call[p].status = 200 /\ call[p].inserted
        /\ call[q].status = 409 /\ ~call[q].inserted

\* C2 Conflict on duplicate: a record_usage call made when a row with its correlation
\* id already exists answers 409 and inserts nothing.
C2_ConflictOnDuplicate ==
    \A p \in Procs :
        (Returned(p, {"record"}) /\ call[p].existed)
            => (call[p].status = 409 /\ ~call[p].inserted)

\* C3 No silent over-admission: when every recorded transcription was admitted by
\* check_usage_limits, the credits used in the current period of an account whose
\* plan disallows overage never exceed the plan's credits_per_month.
C3_NoOverAdmission ==
    \A u \in Users :
        (get_current_usage(u).ok /\ ~PlanOf(u).allows_overage)
            => get_current_usage(u).credits_used <= PlanOf(u).credits_per_month

C5_CreditFormula ==
    \A p \in Procs :
        Decided(p) => call[p].decision.credits_required = SpecCredits(call[p].duration_seconds)

\* C5 witness: a Decision for a duration just above a whole minute
C5_Witness ==
    \E p \in Procs :
        Decided(p) /\ call[p].duration_seconds = 61 /\ call[p].decision.credits_required = 2

\* C6 Credits by usage kind: the credits record_usage computes for a recorded event are
\* max(1, ceil(duration / 60)) for a transcription and 1 for any other kind, and
\* equal the credits the period aggregate counts for the row.
C6_CreditsByKind ==
    \A p \in Procs :
        (Returned(p, {"record"}) /\ call[p].inserted)
            => /\ call[p].credits = (IF call[p].usage_type = TRANSCRIPTION
                                     THEN SpecCredits(call[p].duration_seconds) ELSE 1)
               /\ call[p].credits = AggregateCredits(UsageRow(call[p]))

\* C7 Concurrency gate: in every Decision, can_process_concurrent is false if and
\* only if the account's processing jobs are at or above the plan's max_concurrent_jobs.
C7_ConcurrencyGate ==
    \A p \in Procs :
        Decided(p)
            => (~call[p].decision.can_process_concurrent
                  <=> transcriptions[call[p].user_id].processing
                        >= PlanOf(call[p].user_id).max_concurrent_jobs)

\* C8 Concurrency is a hard gate: when the processing jobs have reached the plan's
\* max_concurrent_jobs, the Decision has can_process and can_process_concurrent false.
C8_ConcurrencyHardGate ==
    \A p \in Procs :
        (Decided(p) /\ transcriptions[call[p].user_id].processing
                          >= PlanOf(call[p].user_id).max_concurrent_jobs)
            => (~call[p].decision.can_process /\ ~call[p].decision.can_process_concurrent)

\* C8 witness: five jobs processing on the pro plan, a file within the limit, ample
\* credits, and the request is refused
C8_Witness ==
    \E p \in Procs :
        /\ Decided(p)
        /\ get_user_plan(call[p].user_id) = "pro"
        /\ transcriptions[call[p].user_id].processing = 5
        /\ call[p].file_size_bytes <= 500 * MB
        /\ call[p].decision.credits_required <= call[p].decision.credits_available
        /\ ~call[p].decision.can_process
        /\ ~call[p].decision.can_process_concurrent

RejectedForSize(c) ==
    \/ c.detail = "file_size_bytes: exceeds maximum"
    \/ (c.status = 200 /\ c.decision.blocking_reason # None
          /\ Head(c.decision.blocking_reason) = "File size exceeds limit")

\* C9 File-size gate: a request whose size exceeds the max_file_size_mb of the
\* account's plan is never admitted, and a request whose size is within it is never
\* rejected on size grounds.
C9_FileSizeGate ==
    \A p \in Procs :
        (Returned(p, {"check", "check_endpoint"}) /\ call[p].file_size_bytes >= 1)
            => IF call[p].file_size_bytes > PlanOf(call[p].user_id).max_file_size_mb * MB
               THEN ~(call[p].status = 200 /\ call[p].decision.can_process)
               ELSE ~RejectedForSize(call[p])

ShortWithoutOverage(p) ==
    /\ Decided(p)
    /\ ~PlanOf(call[p].user_id).allows_overage
    /\ SpecCredits(call[p].duration_seconds)
          > PlanOf(call[p].user_id).credits_per_month
              - SumRowCredits(CurrentRows(call[p].user_id))

ReportsCredits(p) ==
    /\ call[p].decision.credits_required = SpecCredits(call[p].duration_seconds)
    /\ call[p].decision.credits_available =
          PlanOf(call[p].user_id).credits_per_month
              - SumRowCredits(CurrentRows(call[p].user_id))

StatesInsufficientCredits(p) ==
    call[p].decision.blocking_reason =
        <<"Insufficient credits", call[p].decision.credits_required,
          call[p].decision.credits_available>>

\* C10 as stated: without overage, whenever credits_required > credits_available the
\* Decision has can_process false, a blocking_reason stating insufficient credits,
\* and the exact credits_required and credits_available.
C10_InsufficientCreditsOriginal ==
    \A p \in Procs :
        ShortWithoutOverage(p)
            => (~call[p].decision.can_process /\ ReportsCredits(p)
                /\ StatesInsufficientCredits(p))

\* C10 amended: without overage, whenever credits_required > credits_available the
\* Decision has can_process false and the exact credits_required and
\* credits_available; its blocking_reason states insufficient credits when the file
\* is within the plan's size limit and the concurrency cap is not reached, and
\* names the file size or the concurrency cap otherwise.
C10_InsufficientCredits ==
    \A p \in Procs :
        ShortWithoutOverage(p)
            => /\ ~call[p].decision.can_process
               /\ ReportsCredits(p)
               /\ call[p].decision.blocking_reason # None
               /\ (/\ call[p].file_size_bytes
                         <= PlanOf(call[p].user_id).max_file_size_mb * MB
                   /\ transcriptions[call[p].user_id].processing
                         < PlanOf(call[p].user_id).max_concurrent_jobs)
                    <=> StatesInsufficientCredits(p)

\* C10 witness: the free plan with 25 credits used, a 10 minute request, a file
\* within the limit and no job processing
C10_Witness ==
    \E p \in Procs :
        /\ ShortWithoutOverage(p)
        /\ call[p].duration_seconds = 600
        /\ call[p].file_size_bytes <= 25 * MB
        /\ transcriptions[call[p].user_id].processing = 0
        /\ ~call[p].decision.can_process
        /\ call[p].decision.credits_required = 10
        /\ call[p].decision.credits_available = 5
        /\ StatesInsufficientCredits(p)

\* the credits the plan still grants the account in its current period
Remaining(u) == PlanOf(u).credits_per_month - SumRowCredits(CurrentRows(u))

WithinSize(p) == call[p].file_size_bytes <= PlanOf(call[p].user_id).max_file_size_mb * MB

BelowCap(p) ==
    transcriptions[call[p].user_id].processing < PlanOf(call[p].user_id).max_concurrent_jobs

ShortWithOverage(p) ==
    /\ Decided(p)
    /\ PlanOf(call[p].user_id).allows_overage
    /\ SpecCredits(call[p].duration_seconds) > Remaining(call[p].user_id)
    /\ WithinSize(p)
    /\ BelowCap(p)

HasWarning(p, w) ==
    \E i \in 1..Len(call[p].decision.warnings) : call[p].decision.warnings[i] = w

\* C11 Overage admission: on a plan that allows overage, a request that needs more
\* credits than are available, with a file within the size limit and the concurrency
\* cap not reached, is admitted with a warning naming exactly
\* credits_required - credits_available overage credits, and
\* credits_after = credits_available - credits_required <= 0.
C11_OverageAdmission ==
    \A p \in Procs :
        ShortWithOverage(p)
            => /\ call[p].decision.can_process
               /\ HasWarning(p, <<"overage credits",
                                  SpecCredits(call[p].duration_seconds)
                                      - Remaining(call[p].user_id)>>)
               /\ call[p].decision.credits_after =
                      Remaining(call[p].user_id) - SpecCredits(call[p].duration_seconds)
               /\ call[p].decision.credits_after <= 0

\* C11 witness: the starter plan with 140 of 150 credits used and a 20 minute
\* request: admitted with 10 overage credits
C11_Witness ==
    \E p \in Procs :
        /\ ShortWithOverage(p)
        /\ get_user_plan(call[p].user_id) = "starter"
        /\ call[p].duration_seconds = 1200
        /\ call[p].decision.credits_available = 10
        /\ call[p].decision.can_process
        /\ HasWarning(p, <<"overage credits", 10>>)
        /\ call[p].decision.credits_after = -10

NearLimit(u) ==
    /\ SumRowCredits(CurrentRows(u)) * 10 >= PlanOf(u).credits_per_month * 8
    /\ SumRowCredits(CurrentRows(u)) < PlanOf(u).credits_per_month

\* C12 Near-limit warning: every Decision carries the near-limit warning exactly
\* when the credits used in the period are >= 80% and < 100% of the plan's
\* allowance, whatever the outcome (admitted, or denied for credits, concurrency or
\* file size).
C12_NearLimitWarning ==
    \A p \in Procs :
        Decided(p)
            => (HasWarning(p, <<"approaching monthly limit">>) <=> NearLimit(call[p].user_id))

Reason(p) == call[p].decision.blocking_reason

\* the cause a blocking_reason names holds for the request
ReasonHolds(p) ==
    /\ Reason(p) # None
    /\ Head(Reason(p)) \in {"File size exceeds limit", "Maximum concurrent jobs reached",
                            "Insufficient credits"}
    /\ Head(Reason(p)) = "File size exceeds limit" => ~WithinSize(p)
    /\ Head(Reason(p)) = "Maximum concurrent jobs reached" => ~BelowCap(p)
    /\ Head(Reason(p)) = "Insufficient credits"
          => SpecCredits(call[p].duration_seconds) > Remaining(call[p].user_id)

\* C13 Denial reasons: every Decision with can_process false has a blocking_reason
\* naming a cause that holds for the request (insufficient credits, file too large,
\* concurrency limit reached), and every Decision with can_process true has none.
C13_DenialReasons ==
    \A p \in Procs :
        Decided(p)
            => IF call[p].decision.can_process THEN Reason(p) = None ELSE ReasonHolds(p)

\* C13 witness: a request denied only because the concurrency cap is reached (the
\* credits suffice and the file is within the limit), with the reason naming the cap
C13_Witness ==
    \E p \in Procs :
        /\ Decided(p)
        /\ ~call[p].decision.can_process
        /\ WithinSize(p)
        /\ ~BelowCap(p)
        /\ SpecCredits(call[p].duration_seconds) <= Remaining(call[p].user_id)
        /\ Reason(p) = <<"Maximum concurrent jobs reached",
                         PlanOf(call[p].user_id).max_concurrent_jobs>>

\* a date of the calendar
IsCalendarDate(dt) ==
    /\ dt.month \in 1..12
    /\ dt.day >= 1
    /\ dt.day <= DaysInMonth(dt.year, dt.month)

Inside(day, period) ==
    DateKey(period.start) <= DateKey(day) /\ DateKey(day) <= DateKey(period.end)

PeriodComputed(p) == Returned(p, {"period"})

\* C14 Period contiguity: every 'today' lies inside the period computed for it, and
\* whenever the period computed for the next day differs, it starts on the day
\* after the end of the period of today.
C14_PeriodContiguity ==
    \A p \in Procs :
        PeriodComputed(p)
            => /\ call[p].billing_period.ok
               /\ Inside(call[p].today, call[p].billing_period)
               /\ LET next == billing_period_on(call[p].creation_day, NextDay(call[p].today))
                  IN  (next.ok /\ next.start # call[p].billing_period.start)
                          => next.start = NextDay(call[p].billing_period.end)

\* day d of the month of today, or of the month before it
MonthOfStart(d, day) ==
    IF day.day >= d THEN [year |-> day.year, month |-> day.month]
    ELSE IF day.month = 1 THEN [year |-> day.year - 1, month |-> 12]
    ELSE [year |-> day.year, month |-> day.month - 1]

MonthAfter(ym) ==
    IF ym.month = 12 THEN [year |-> ym.year + 1, month |-> 1]
    ELSE [year |-> ym.year, month |-> ym.month + 1]

\* the day before day d of a month
DayBefore(ym, d) ==
    IF d > 1 THEN Date(ym.year, ym.month, d - 1)
    ELSE IF ym.month = 1 THEN Date(ym.year - 1, 12, 31)
    ELSE Date(ym.year, ym.month - 1, DaysInMonth(ym.year, ym.month - 1))

DayExists(ym, d) == d <= DaysInMonth(ym.year, ym.month)

C16_AnniversaryClamping ==
    \A p \in Procs :
        PeriodComputed(p)
            => /\ call[p].status = 200
               /\ IsCalendarDate(call[p].billing_period.start)
               /\ IsCalendarDate(call[p].billing_period.end)

ResetCount(u, day) ==
    Cardinality({i \in 1..Len(resets) : resets[i].user_id = u /\ resets[i].reset_date = day})

AuditCount(u, day, success) ==
    Cardinality({i \in 1..Len(audit_logs) :
                    /\ audit_logs[i].user_id = u
                    /\ audit_logs[i].reset_date = day
                    /\ audit_logs[i].success = success})

\* C17 Reset idempotency: an account is reset and audited at most once for a day,
\* however often the reset is invoked that day.
C17_ResetIdempotency ==
    \A u \in Users :
        /\ ResetCount(u, today) <= 1
        /\ AuditCount(u, today, TRUE) <= 1

\* the day of the month of the account's anniversary in the month of a day
ClampedAnniversary(u, day) ==
    IF users[u].created_at.day <= DaysInMonth(day.year, day.month)
    THEN users[u].created_at.day
    ELSE DaysInMonth(day.year, day.month)

Selected == {run.users_to_reset[i] : i \in 1..Len(run.users_to_reset)}

JustSelected ==
    /\ run.pc \in {"gather", "loop"}
    /\ run.i = 1
    /\ \A i \in 1..Len(run.tasks) : run.tasks[i] = "new"

\* C18 Reset eligibility: the accounts a run selects are exactly the active accounts
\* whose anniversary, clamped to the month's last day, is today and that have not
\* been reset today.
C18_ResetEligibility ==
    JustSelected
        => Selected = {u \in Users : /\ users[u].is_active
                                     /\ ClampedAnniversary(u, today) = today.day
                                     /\ ResetCount(u, today) = 0}

DailyRunDone == run.kind = "daily" /\ run.pc = "done"

\* C19 Failure isolation: at the end of a scheduled run every selected account was
\* attempted exactly once, successful_resets + failed_resets is the number of
\* selected accounts, and successful_resets is the number of accounts whose reset
\* completed.
C19_FailureIsolation ==
    DailyRunDone
        => /\ \A u \in Selected :
                 Cardinality({i \in 1..Len(run.tasks) :
                                 /\ run.users_to_reset[i] = u
                                 /\ run.tasks[i] \in {"response", "exception"}}) = 1
           /\ run.successful_resets + run.failed_resets = Cardinality(Selected)
           /\ run.successful_resets =
                 Cardinality({u \in Selected :
                                 \E i \in 1..Len(run.tasks) :
                                     run.users_to_reset[i] = u /\ run.tasks[i] = "response"})

\* C20 Manual trigger equivalence: a manual bulk run leaves the audit log as a
\* scheduled run does: one audit entry for every account reset.
C20_ManualEquivalence ==
    \A u \in Users : RunIdle => AuditCount(u, today, TRUE) = ResetCount(u, today)

\* the ids the limiter tracks for an account before and after the caller's last call
TrackedBefore(u) == user_jobs(track.last_before, u)
TrackedNow(u) == user_jobs(active_jobs, u)

\* the caller's last call was a finish_job for an id the limiter did not track
FinishedUntracked == track.op = "finish" /\ track.job_id \notin TrackedBefore(track.user_id)

\* the caller called start_job(a, j) and then finish_job(a, j) at least once
StartedThenFinished == track.started /\ track.finishes >= 1

\* C21 as stated: a finish_job for an id that is not tracked (a second finish, an id
\* never started, an account without jobs) changes nothing, a finish_job leaves every
\* other tracked job of every account as it was, and after start_job(a, j) followed by
\* one or more finish_job(a, j) the limiter tracks what it tracked before the start.
C21_IdempotentReleaseOriginal ==
    /\ FinishedUntracked => active_jobs = track.last_before
    /\ track.op = "finish" =>
          \A u \in Users, j \in LimiterJobs :
              (u # track.user_id \/ j # track.job_id) =>
                  ((j \in TrackedNow(u)) <=> (j \in TrackedBefore(u)))
    /\ StartedThenFinished => active_jobs = track.before

\* C21: a finish_job for an id that is not tracked changes nothing, a finish_job leaves
\* every other tracked job of every account as it was, and after start_job(a, j) for an
\* id j that was not tracked yet, followed by one or more finish_job(a, j), the limiter
\* tracks what it tracked before the start.
C21_IdempotentRelease ==
    /\ FinishedUntracked => active_jobs = track.last_before
    /\ track.op = "finish" =>
          \A u \in Users, j \in LimiterJobs :
              (u # track.user_id \/ j # track.job_id) =>
                  ((j \in TrackedNow(u)) <=> (j \in TrackedBefore(u)))
    /\ (StartedThenFinished /\ track.job_id \notin user_jobs(track.before, track.user_id))
          => active_jobs = track.before

\* a job of u1 was started and finished twice while u1 and u2 had other jobs tracked
C21_Witness ==
    /\ StartedThenFinished
    /\ track.finishes = 2
    /\ track.user_id = "u1"
    /\ track.job_id \notin user_jobs(track.before, "u1")
    /\ user_jobs(track.before, "u1") # {}
    /\ user_jobs(active_jobs, "u2") # {}


\* handler p took its first step, which answered or passed the admission check
Called(p, ops) == CanStart(p) /\ call'[p] # call[p] /\ call'[p].op \in ops

Tiers == <<"free", "starter", "pro", "enterprise">>

TierOf(u) == IF subscription[u] \in {Tiers[i] : i \in 1..4} THEN subscription[u] ELSE "free"

TierRank(t) == CHOOSE i \in 1..4 : Tiers[i] = t

TiersAbove(t) == SelectSeq(Tiers, LAMBDA x : TierRank(x) > TierRank(t))

\* C23: the limits of an unknown or missing tier are the free tier's, and the upgrade
\* options are the limits of the tiers strictly above the current one, in the order
\* free < starter < pro < enterprise; can_upgrade says whether there is one.
C23_PlanRegistry ==
    \A p \in Procs :
        Returned(p, {"limits"}) =>
            LET u == call[p].user_id
                limits == call[p].limits
                above == TiersAbove(TierOf(u))
            IN  /\ limits.ok
                /\ limits.current_plan = PLAN_CONFIGS[TierOf(u)]
                /\ Len(limits.upgrade_options) = Len(above)
                /\ \A i \in 1..Len(above) : limits.upgrade_options[i] = PLAN_CONFIGS[above[i]]
                /\ limits.can_upgrade = (above # <<>>)
                /\ (subscription[u] = "enterprise") =>
                      (limits.upgrade_options = <<>> /\ ~limits.can_upgrade)
                /\ (TierOf(u) = "free") => Len(limits.upgrade_options) = 3

\* the limits of an account on an unknown tier were read
C23_Witness ==
    /\ Returned("p1", {"limits"})
    /\ subscription["u1"] = "legacy"
    /\ call["p1"].limits.current_plan.plan_name = "free"
    /\ call["p1"].limits.upgrade_options[3].plan_name = "enterprise"


\* a ledger row without its month label
Unlabelled(row) == [row EXCEPT !.usage_month = strftime_Ym(row.usage_date)]

\* C24: no step of cleanup_old_usage_data or perform_monthly_reset (nor any other)
\* deletes a ledger row or changes a field of one other than its month label; the
\* label changes only in rows older than the cutoff, to the archived label; and
\* running the archival twice gives the ledger that running it once gives.
C24_LedgerImmutability ==
    /\ [][/\ Len(usage_tracking') >= Len(usage_tracking)
          /\ \A i \in 1..Len(usage_tracking) :
                /\ Unlabelled(usage_tracking'[i]) = Unlabelled(usage_tracking[i])
                /\ usage_tracking'[i].usage_month # usage_tracking[i].usage_month =>
                      /\ toordinal(usage_tracking[i].usage_date) < toordinal(today) - 730
                      /\ usage_tracking'[i].usage_month
                            = MonthLabel(1, usage_tracking[i].usage_date.year,
                                         usage_tracking[i].usage_date.month)]_vars
    /\ [](cleanup_rows(cleanup_rows(usage_tracking)) = cleanup_rows(usage_tracking))

\* the account was reset, and a row older than the cutoff is archived beside a newer row
C24_Witness ==
    /\ Len(usage_tracking) = 2
    /\ usage_tracking[1].usage_month.prefixes = 1
    /\ usage_tracking[2].usage_month.prefixes = 0
    /\ Len(resets) = 1


\* the calendar month a label names, counted in months
CalendarMonth(label) == label.year * 12 + label.month

\* the rows of account u
AllRows(u) == {i \in 1..Len(usage_tracking) : usage_tracking[i].user_id = u}

\* the calendar months of the window of a history request made today
InWindow(month, months) ==
    /\ month >= today.year * 12 + today.month - months
    /\ month <= today.year * 12 + today.month

\* C25: get_usage_history answers one aggregate for every calendar month of the
\* requested window in which the account has a ledger row, none for another month,
\* and the newest month first, whatever the cleanup job has relabelled.
C25_HistoryOrdering ==
    [][\A p \in Procs :
          Called(p, {"history"}) =>
              LET c == call'[p]
                  items == c.history.history
              IN  /\ c.history.ok
                  /\ \A k \in 1..Len(items) : InWindow(CalendarMonth(items[k].month), c.months)
                  /\ \A k \in 1..Len(items), l \in 1..Len(items) :
                        k < l => CalendarMonth(items[k].month) > CalendarMonth(items[l].month)
                  /\ \A i \in AllRows(c.user_id) :
                        LET month == usage_tracking[i].usage_date.year * 12
                                     + usage_tracking[i].usage_date.month
                        IN  InWindow(month, c.months) =>
                                \E k \in 1..Len(items) : CalendarMonth(items[k].month) = month]_vars

RECURSIVE SumRowDuration(_)
SumRowDuration(I) ==
    IF I = {} THEN 0
    ELSE LET i == CHOOSE x \in I : TRUE
         IN  usage_tracking[i].duration_seconds + SumRowDuration(I \ {i})

\* C26: the lifetime totals that get_usage_history answers are the credits, the number
\* and the minutes of all ledger rows of the account, whatever months was asked for.
C26_LifetimeTotals ==
    [][\A p \in Procs :
          Called(p, {"history"}) =>
              LET c == call'[p]
              IN  /\ c.history.ok
                  /\ c.history.total_lifetime_credits = SumRowCredits(AllRows(c.user_id))
                  /\ c.history.total_lifetime_transcriptions = Cardinality(AllRows(c.user_id))
                  /\ c.history.total_lifetime_minutes
                        = SumRowDuration(AllRows(c.user_id)) \div 60]_vars


\* the request of handler p has a negative duration or a negative size
Malformed(p) == call[p].duration_seconds < 0 \/ call[p].file_size_bytes < 0

\* C27: a request to record or to check usage that has a negative duration or a
\* negative size is answered with a validation outcome at once: it reaches no step
\* that reads or writes the store, inserts no ledger row and gets no Decision.
C27_Validation ==
    /\ \A p \in Procs :
          (call[p].op \in {"record", "record_endpoint", "check", "check_endpoint",
                           "middleware_check"} /\ Malformed(p)) =>
              /\ call[p].pc = "done"
              /\ call[p].status = 422
              /\ ~call[p].inserted
              /\ ~call[p].decision.ok
    /\ \A i \in 1..Len(usage_tracking) : usage_tracking[i].duration_seconds >= 0


\* the credits of the ledger rows of account u whose billing period ends on the day
\* before the given day
ClosedPeriodCredits(u, day) ==
    SumRowCredits({i \in AllRows(u) : usage_tracking[i].billing_period_end = PrevDay(day)})

\* C28: the previous_credits_used of every response of a scheduled reset, and of its
\* audit row, is the credits used in the billing period that ended on the day before
\* the reset day, and new_credits_available is the credits_per_month of the account's
\* plan.
C28_ResetAuditContent ==
    /\ \A k \in 1..Len(resets) :
          resets[k].reset_reason = "Automated monthly reset" =>
          /\ resets[k].previous_credits_used
                = ClosedPeriodCredits(resets[k].user_id, resets[k].reset_date)
          /\ resets[k].new_credits_available = PlanOf(resets[k].user_id).credits_per_month
    /\ \A k \in 1..Len(audit_logs) :
          audit_logs[k].success =>
              /\ audit_logs[k].previous_credits_used
                    = ClosedPeriodCredits(audit_logs[k].user_id, audit_logs[k].reset_date)
              /\ audit_logs[k].new_credits_available
                    = PlanOf(audit_logs[k].user_id).credits_per_month

\* the batch a row of the selection belongs to
BatchOf(i) == (i - 1) \div 10

TaskStarted(i) == run.tasks[i] # "new"

TaskFinished(i) == run.tasks[i] \in {"none", "response", "exception"}

\* C29: in a run of the scheduler at most 10 resets are in flight, and no reset of a
\* later batch has started while a reset of an earlier batch has not finished.
C29_BoundedResetConcurrency ==
    run.kind = "daily" =>
        /\ Cardinality({i \in 1..Len(run.tasks) : TaskStarted(i) /\ ~TaskFinished(i)}) <= 10
        /\ \A i \in 1..Len(run.tasks), j \in 1..Len(run.tasks) :
              (BatchOf(i) < BatchOf(j) /\ TaskStarted(j)) => TaskFinished(i)

\* the reset of the second batch is in flight after the ten tasks of the first batch,
\* of which two ran at the same time, have finished
C29_Witness ==
    /\ run.kind = "daily"
    /\ Len(run.tasks) = 11
    /\ run.tasks[11] = "resetting"
    /\ run.tasks[1] = "response"
    /\ run.tasks[2] = "exception"
    /\ run.successful_resets = 9
    /\ run.failed_resets = 1


\* C30: the billing period that perform_monthly_reset returns is the period that
\* _get_user_billing_period computes for the account on the reset day, and
\* next_reset_date is the day after billing_period_end, on every reset day.
C30_ResetPeriodAgreement ==
    \A k \in 1..Len(resets) :
        LET period == billing_period_on(users[resets[k].user_id].created_at.day,
                                        resets[k].reset_date)
        IN  /\ period.ok
            /\ resets[k].billing_period_start = period.start
            /\ resets[k].billing_period_end = period.end
            /\ resets[k].next_reset_date = NextDay(resets[k].billing_period_end)

\* C31: a middleware constructed with enable_enforcement = FALSE rejects no request
\* with 429; a request is rejected with 429 only where enforcement is enabled and the
\* usage check returned can_process = FALSE.
C31_EnforcementSwitch ==
    \A p \in Procs :
        requests[p].status = 429 => enable_enforcement /\ ~requests[p].can_process

\* C32: for every account, where every caller calls start_job only after
\* can_start_processing(account, max) returned True, the number of jobs the limiter
\* tracks as active for the account never exceeds max.
C32_CapNeverExceeded ==
    \A u \in Users :
        Cardinality(user_jobs(active_jobs, u))
            <= PlanConfig(get_user_plan(u)).max_concurrent_jobs

\* the requests of an account whose downstream handler is running
InFlightOf(u) == {p \in Handling : requests[p].user_id = u}

\* C33: for every account the number of entries in processing_jobs equals the number
\* of the account's requests in flight, also when several of them start within the
\* same second and whether the handler returns or raises, and the map keeps no empty
\* set.
C33_SlotAccounting ==
    /\ \A u \in Users :
           Cardinality(user_jobs(processing_jobs, u)) = Cardinality(InFlightOf(u))
    /\ \A u \in DOMAIN processing_jobs : processing_jobs[u] # {}

\* C34: for every request dispatch calls the downstream handler (call_next) at most
\* once, also when the handler or the recording of usage raises.
C34_SingleDispatch ==
    \A p \in Procs : requests[p].call_next <= 1

\* the scheduler's tasks that are executing perform_monthly_reset for an account
ScheduledResets(u) ==
    {j \in 1..Len(run.tasks) : run.tasks[j] = "resetting" /\ run.users_to_reset[j] = u}

\* the manual bulk trigger is executing perform_monthly_reset for an account
BulkResetting(u) == bulk.pc = "resetting" /\ bulk.users_to_reset[bulk.i] = u

\* executions of perform_monthly_reset in progress for an account
ResetsInProgress(u) == Cardinality(ScheduledResets(u)) + (IF BulkResetting(u) THEN 1 ELSE 0)

\* C35: no two executions of perform_monthly_reset for one account are in progress at
\* the same time, whether a scheduled run or the manual bulk trigger started them, and
\* reset_in_progress holds an account only while a reset of it is executing (it is
\* empty whenever no run is active).
C35_OneResetInFlight ==
    /\ \A u \in Users : ResetsInProgress(u) <= 1
    /\ \A u \in reset_in_progress : ResetsInProgress(u) >= 1
    /\ (RunIdle /\ bulk.pc \in {"idle", "done"}) => reset_in_progress = {}

\* the terminal statuses of a transcription job
Terminal == {COMPLETED, FAILED, CANCELLED}

\* C36: once a job's status is completed, failed or cancelled it never changes again:
\* a job cancelled while process_job is running stays cancelled, and cancel_job on a
\* job in a terminal status answers False and changes nothing.
C36_TerminalAbsorbing ==
    [][\A j \in ServiceJobs :
          service_jobs[j].status \in Terminal =>
              /\ service_jobs'[j].status = service_jobs[j].status
              /\ service_jobs'[j].cancel_job \in {service_jobs[j].cancel_job, "False"}]_vars

\* with_retry calls the operation for caller p in this step
Invokes(p) == retry[p].pc # "operation" /\ retry'[p].pc = "operation"

\* C37: while the named circuit breaker is OPEN and its recovery timeout has not
\* passed since the last failure, with_retry does not call the operation: a new call
\* raises CircuitBreakerOpenError without calling it, and a call inside its retry loop
\* makes no further attempt.
C37_OpenCircuitBlocks ==
    [][\A p \in Procs :
          circuit_rejects(circuit) /\ retry'[p].circuit_breaker_name => ~Invokes(p)]_vars

\* the exceptions the retry configuration lists as retryable
Retried == {"ExternalAPIError", "ProcessingError", "TimeoutError", "ConnectionError"}

\* calls of the operation that one with_retry call has made so far
Invocations(r) == Len(r.attempts) + (IF r.pc = "operation" THEN 1 ELSE 0)

\* a with_retry call is in its loop
InLoop(p) == retry[p].pc \in {"operation", "sleeping"}

\* a with_retry call has returned or raised
Returned38(p) == retry[p].pc = "done"

\* the attempts of one call: never more than max_attempts, every attempt that was
\* followed by another one failed with a retryable exception, and a call that ended
\* returned the result of its last attempt or raised that attempt's exception, a
\* retryable one only after max_attempts attempts
AttemptsOf(r) ==
    /\ Invocations(r) <= r.max_attempts
    /\ \A i \in 1..(Invocations(r) - 1) : r.attempts[i] \in Retried
    /\ r.pc = "done" /\ r.attempts # <<>> =>
           /\ r.outcome = r.attempts[Len(r.attempts)]
           /\ r.outcome \in Retried => Len(r.attempts) = r.max_attempts

=============================================================================
